---- MODULE Spec2Model ----
(***************************************************************************)
(* Messaging bridge (Slack / Facebook / Instagram / Discord / Telegram).   *)
(* The module models the duplicate-event filter, the reply chunker and the *)
(* webhook handlers that use them.                                         *)
(*                                                                         *)
(*   SpecDedup  drives _is_duplicate directly, with a stream of            *)
(*              identifiers long enough to fill a window and evict.        *)
(*   SpecChunk  applies each copy of the chunker to every text over a      *)
(*              small alphabet and every max_length in 1..MaxMaxLength.    *)
(*   SpecHooks  one server process (Slack, Facebook or Instagram app)      *)
(*              handling webhook requests concurrently on its event loop:  *)
(*              an action is the code run between two await points.        *)
(***************************************************************************)
EXTENDS Integers, Sequences, FiniteSets, TLC

(***************************************************************************)
(* Bounds of the model.                                                    *)
(***************************************************************************)
\* identifiers a driver may feed to one window (enough to overflow it)
MaxFresh == 502
\* calls that repeat an identifier already used
MaxReplays == 3
\* the first identifiers of the stream may be replayed at any later time
NumProbes == 2
\* longest reply text given to the chunker
MaxTextLen == 5
\* largest max_length given to the chunker (the smallest is 1: the hard
\* split steps by max_length, and range() rejects a step of 0)
MaxMaxLength == 3
\* events carried by one webhook payload
MaxEvents == 1
\* chunks of one reply
MaxChunks == 2
\* updates Telegram receives for the bot
MaxUpdates == 3
\* store versions the sync can produce
MaxVersions == 2
\* seconds of wall-clock time that pass after startup
MaxElapsed == 122

(***************************************************************************)
(* The dedup windows: one (deque, set) pair per module-level global pair.  *)
(***************************************************************************)
Windows == {"slack_event", "facebook_message", "instagram_message", "instagram_comment"}

Probes == 1..NumProbes

VARIABLES
    processed_ids,      \* [Windows -> Seq(Id)]   the deques _processed_*_ids
    processed_index,    \* [Windows -> SUBSET Id] the sets _processed_*_index
    target,             \* the window the driver of SpecDedup calls
    nextId,             \* identifiers 1..nextId have been used by the driver
    replays,            \* number of calls that repeated an identifier
    calls,              \* number of calls of _is_duplicate made so far
    distinct,           \* TRUE while no call repeated an earlier argument
    nrec,               \* number of identifiers recorded (calls that missed)
    recordedAt,         \* [Probes -> Nat] value of nrec when the probe was last recorded, 0 = never
    last                \* the latest call: [id, ret], id = 0 before any call

\* the bookkeeping of the driver of SpecDedup
driverVars == <<target, nextId, replays, calls, distinct, nrec, recordedAt, last>>

dedupVars == <<processed_ids, processed_index, driverVars>>

VARIABLES
    text,               \* the reply text, a sequence of characters
    max_length,         \* the chunker's max_length argument
    chunker,            \* which copy of the chunker has run, "none" before
    message_chunks      \* the list the chunker returned

chunkVars == <<text, max_length, chunker, message_chunks>>

\* the three server processes; each has its own globals
Apps == {"slack", "facebook", "instagram"}

\* webhook requests delivered to the process
Reqs == {"r1", "r2"}

\* identifiers carried by events; NoId is an absent or empty identifier
NoId == 0
EventIds == {1, 2}

\* a request no handler has taken up yet
NewRequest ==
    [pc |-> "new", type |-> "none", verdict |-> "none", challenge |-> "none",
     gate |-> "none", left |-> 0, mid |-> NoId, chunks |-> 0, sent |-> 0,
     status |-> 0, body |-> "none"]

VARIABLES
    app,                \* the process observed
    env,                \* the settings the process read from its environment
    faults,             \* whether the chat backend and the broker can fail in the run
    req,                \* [Reqs -> record]: where the handler of the request stands
                        \* (pc); for a Slack request its type, what the signature
                        \* check did and its challenge; the checks the request
                        \* passed before its events were looked at (gate); the
                        \* events of its payload left, the id of the event awaiting
                        \* the backend, the chunks of the reply left to send and
                        \* already tried, the HTTP status and the body answered
    dispatched,         \* [EventIds -> Nat] events with that id sent to the chat backend
    seg,                \* what the latest step did with each event it handled
    commentTasks        \* process_instagram_comment tasks created and not yet run

hookVars == <<app, env, faults, req, dispatched, seg, commentTasks>>

VARIABLES
    request,            \* the request put to a check of SpecVerify
    response            \* what the check answered

verifyVars == <<request, response>>

\* an offset that is None, and the first update id the broker gives
NoOffset == 0

VARIABLES
    offset,             \* the cursor of poll_loop, NoOffset while it is None
    poll,               \* where poll_loop stands (pc), the batch it iterates over
                        \* and the position of the next update in it
    tg_updates,         \* the updates Telegram has for the bot, in arrival order:
                        \* the update of position i has update_id i
    tg_step             \* what the latest step of the loop did

pollVars == <<offset, poll, tg_updates, tg_step>>

VARIABLES
    platform,           \* the handler that sends the reply, "none" before
    outbound            \* the texts handed to the send API for the reply, in order

sendVars == <<platform, outbound>>

VARIABLES
    store,              \* the version of the slack_accounts table in the store
    cache,              \* _slack_account_map_cache, as the version it was loaded from
    cache_last_updated, \* _cache_last_updated
    clock,              \* time.time(), in seconds
    reader,             \* the call of get_slack_account_map on the event loop
    syncer,             \* the call of sync_slack_accounts_to_supabase in the executor
    invalidated,        \* the sync has set _cache_last_updated to 0 and no call
                        \* of get_slack_account_map has started since
    sync_task           \* the task of background_sync_loop that lifespan created

cacheVars == <<store, cache, cache_last_updated, clock, reader, syncer, invalidated, sync_task>>

vars == <<dedupVars, chunkVars, hookVars, verifyVars, pollVars, sendVars, cacheVars>>

Min(a, b) == IF a < b THEN a ELSE b

(***************************************************************************)
(* _is_duplicate (slack_app.py:45, facebook_app.py:80, instagram_app.py:70 *)
(* and _is_duplicate_comment, instagram_app.py:464: the same body on four  *)
(* pairs of globals).                                                      *)
(***************************************************************************)
\* mutant: the entries trimmed from the deque stay in the set
evict_keep_index(ids, index) ==
    [ids |-> IF Len(ids) > 500 THEN SubSeq(ids, Len(ids) - 499, Len(ids)) ELSE ids,
     index |-> index]

RECURSIVE evict(_, _)
\* while len(ids) > 500: old = ids.popleft(); index.discard(old)
evict(ids, index) ==
    IF Len(ids) > 500
    THEN evict(Tail(ids), index \ {Head(ids)})
    ELSE [ids |-> ids, index |-> index]

\* mutant: a hit refreshes the identifier's age (moves it to the tail)
is_duplicate_refresh(ids, index, id) ==
    IF id \in index
    THEN [ret |-> TRUE,
          ids |-> Append(SelectSeq(ids, LAMBDA x : x # id), id),
          index |-> index]
    ELSE LET e == evict(Append(ids, id), index \cup {id})
         IN  [ret |-> FALSE, ids |-> e.ids, index |-> e.index]

\* mutant: the window is trimmed one entry early (>= 500 instead of > 500)
is_duplicate_early(ids, index, id) ==
    IF id \in index
    THEN [ret |-> TRUE, ids |-> ids, index |-> index]
    ELSE LET a == Append(ids, id)
             s == index \cup {id}
         IN  IF Len(a) >= 500
             THEN [ret |-> FALSE, ids |-> Tail(a), index |-> s \ {Head(a)}]
             ELSE [ret |-> FALSE, ids |-> a, index |-> s]

\* mutant: the newest entry is dropped instead of the oldest (pop for popleft)
is_duplicate_pop(ids, index, id) ==
    IF id \in index
    THEN [ret |-> TRUE, ids |-> ids, index |-> index]
    ELSE LET a == Append(ids, id)
             s == index \cup {id}
         IN  IF Len(a) > 500
             THEN [ret |-> FALSE, ids |-> SubSeq(a, 1, Len(a) - 1), index |-> s \ {a[Len(a)]}]
             ELSE [ret |-> FALSE, ids |-> a, index |-> s]

\* mutant: the deque is never trimmed
is_duplicate_unbounded(ids, index, id) ==
    IF id \in index
    THEN [ret |-> TRUE, ids |-> ids, index |-> index]
    ELSE [ret |-> FALSE, ids |-> Append(ids, id), index |-> index \cup {id}]

\* mutant: the identifier is appended to the deque but not added to the set
is_duplicate_no_index(ids, index, id) ==
    IF id \in index
    THEN [ret |-> TRUE, ids |-> ids, index |-> index]
    ELSE LET e == evict(Append(ids, id), index)
         IN  [ret |-> FALSE, ids |-> e.ids, index |-> e.index]

\* the call's return value and the globals after it
is_duplicate(ids, index, id) ==
    IF id \in index
    THEN [ret |-> TRUE, ids |-> ids, index |-> index]
    ELSE LET e == evict(Append(ids, id), index \cup {id})
         IN  [ret |-> FALSE, ids |-> e.ids, index |-> e.index]

(***************************************************************************)
(* SpecDedup: a driver that calls _is_duplicate of one window.             *)
(***************************************************************************)
DedupInit ==
    /\ processed_ids = [w \in Windows |-> <<>>]
    /\ processed_index = [w \in Windows |-> {}]
    /\ target \in Windows
    /\ nextId = 0
    /\ replays = 0
    /\ calls = 0
    /\ distinct = TRUE
    /\ nrec = 0
    /\ recordedAt = [p \in Probes |-> 0]
    /\ last = [id |-> 0, ret |-> FALSE]

\* the dedup windows of a process that has handled nothing yet
DedupIdle ==
    /\ processed_ids = [w \in Windows |-> <<>>]
    /\ processed_index = [w \in Windows |-> {}]
    /\ target = "slack_event"
    /\ nextId = 0
    /\ replays = 0
    /\ calls = 0
    /\ distinct = TRUE
    /\ nrec = 0
    /\ recordedAt = [p \in Probes |-> 0]
    /\ last = [id |-> 0, ret |-> FALSE]

\* no reply is being chunked
ChunkIdle ==
    /\ text = <<>>
    /\ max_length = 1
    /\ chunker = "none"
    /\ message_chunks = <<>>

\* no webhook request has arrived
HookIdle ==
    /\ app = "slack"
    /\ env = [SLACK_SIGNING_SECRET |-> "", ORG_AND_ACCOUNT |-> FALSE]
    /\ faults = FALSE
    /\ req = [r \in Reqs |-> NewRequest]
    /\ dispatched = [i \in EventIds |-> 0]
    /\ seg = <<>>
    /\ commentTasks = 0

\* no answer yet
NoResponse == [verdict |-> "none", status |-> 0, media |-> "none", body |-> "none"]

\* no check is being made
VerifyIdle ==
    /\ request = [endpoint |-> "none", secret |-> "", headers |-> "none",
                  hub_mode |-> "", hub_verify_token |-> "", hub_challenge |-> ""]
    /\ response = NoResponse

\* the poll loop has not started
PollIdle ==
    /\ offset = NoOffset
    /\ poll = [pc |-> "none", batch |-> <<>>, pos |-> 0]
    /\ tg_updates = <<>>
    /\ tg_step = [kind |-> "none", update_id |-> 0, sends |-> <<>>]

\* no reply is being sent
SendIdle ==
    /\ platform = "none"
    /\ outbound = <<>>

\* no call reads the account map and no sync runs
CacheIdle ==
    /\ store = 0
    /\ cache = 0
    /\ cache_last_updated = 0
    /\ clock = 0
    /\ reader = [pc |-> "none", current_time |-> 0, loaded |-> 0, got |-> 0]
    /\ syncer = "none"
    /\ invalidated = FALSE
    /\ sync_task = "none"

\* the parts of the model added for the poll loop, the send step and the
\* account-map cache are at rest
RestIdle == PollIdle /\ SendIdle /\ CacheIdle

\* one call _is_duplicate(id) on window w, with the bookkeeping of the driver
Call(w, id) ==
    LET r == is_duplicate(processed_ids[w], processed_index[w], id)
    IN  /\ processed_ids' = [processed_ids EXCEPT ![w] = r.ids]
        /\ processed_index' = [processed_index EXCEPT ![w] = r.index]
        /\ calls' = calls + 1
        /\ distinct' = (distinct /\ id > nextId)
        /\ nrec' = IF r.ret THEN nrec ELSE nrec + 1
        /\ recordedAt' = IF id \in Probes /\ ~r.ret
                         THEN [recordedAt EXCEPT ![id] = nrec + 1]
                         ELSE recordedAt
        /\ last' = [id |-> id, ret |-> r.ret]

\* a call with an identifier never used before
CallFresh ==
    /\ nextId < MaxFresh
    /\ Call(target, nextId + 1)
    /\ nextId' = nextId + 1
    /\ UNCHANGED <<target, replays>>
    /\ UNCHANGED <<chunkVars, hookVars, verifyVars, pollVars, sendVars, cacheVars>>

\* a call that repeats a probe or the newest identifier
CallReplay ==
    /\ replays < MaxReplays
    /\ \E id \in (Probes \cup {nextId}) \cap (1..nextId) :
          Call(target, id)
    /\ replays' = replays + 1
    /\ UNCHANGED <<target, nextId>>
    /\ UNCHANGED <<chunkVars, hookVars, verifyVars, pollVars, sendVars, cacheVars>>

DedupNext == CallFresh \/ CallReplay

DedupSpecInit == DedupInit /\ ChunkIdle /\ HookIdle /\ VerifyIdle /\ RestIdle

SpecDedup == DedupSpecInit /\ [][DedupNext]_vars

(***************************************************************************)
(* Claims about the dedup window, checked under SpecDedup.                 *)
(***************************************************************************)
\* C1: every window's ordered record holds at most 500 identifiers, and after
\* N calls with pairwise-distinct identifiers on an initially empty window the
\* record holds exactly min(N, 500) identifiers.
C1_WindowBounded ==
    /\ \A w \in Windows : Len(processed_ids[w]) <= 500
    /\ distinct => Len(processed_ids[target]) = Min(calls, 500)

\* more than 500 pairwise-distinct identifiers were fed to the window
C1_Witness ==
    /\ distinct
    /\ calls > 500
    /\ Len(processed_ids[target]) = 500

\* the step is a call of _is_duplicate (its argument and result are in last')
IsCall == calls' = calls + 1

\* C2: a call with an identifier already in the membership set returns true
\* and leaves the record and the set unchanged (the identifier keeps its
\* position: a hit does not refresh its age).
C2_HitChangesNothing ==
    [][ (IsCall /\ last'.id \in processed_index[target])
          => /\ last'.ret = TRUE
             /\ processed_ids' = processed_ids
             /\ processed_index' = processed_index ]_vars

\* a hit on the oldest identifier of a full window, which stays the oldest
C2_Witness ==
    /\ last.ret = TRUE
    /\ Len(processed_ids[target]) = 500
    /\ Head(processed_ids[target]) = last.id

\* C3: a call with an identifier not in the membership set returns false,
\* appends it at the tail and adds it to the set; if the record held 500
\* identifiers exactly the oldest is removed from the record and the set,
\* otherwise nothing is removed.
C3_MissAppendsAndEvictsFront ==
    [][ (IsCall /\ last'.id \notin processed_index[target])
          => LET ids == processed_ids[target]
                 idx == processed_index[target]
                 x   == last'.id
             IN  /\ last'.ret = FALSE
                 /\ IF Len(ids) = 500
                    THEN /\ processed_ids'[target] = Append(Tail(ids), x)
                         /\ processed_index'[target] = (idx \ {Head(ids)}) \cup {x}
                    ELSE /\ processed_ids'[target] = Append(ids, x)
                         /\ processed_index'[target] = idx \cup {x} ]_vars

\* a miss on a full window: the oldest identifier (1) has been evicted
C3_Witness ==
    /\ last.id > 500
    /\ last.ret = FALSE
    /\ Len(processed_ids[target]) = 500
    /\ 1 \notin processed_index[target]
    /\ processed_ids[target][500] = last.id

\* C4: is_duplicate(x) twice in a row returns false then true; a later call
\* returns true while fewer than 500 other identifiers were recorded since x
\* was recorded, and returns false again, recording x anew, once 500 or more
\* were recorded in between.
C4_FalseThenTrueUntilEvicted ==
    [][ IsCall =>
          LET x == last'.id
          IN  /\ (calls = 0 \/ x > nextId) => last'.ret = FALSE
              /\ (last.id = x /\ last.ret = FALSE) => last'.ret = TRUE
              /\ (x \in Probes /\ recordedAt[x] > 0 /\ nrec - recordedAt[x] < 500)
                    => last'.ret = TRUE
              /\ (x \in Probes /\ recordedAt[x] > 0 /\ nrec - recordedAt[x] >= 500)
                    => /\ last'.ret = FALSE
                       /\ processed_ids'[target][Len(processed_ids'[target])] = x
                       /\ x \in processed_index'[target] ]_vars

\* a probe was called again after 500 or more others and was recorded anew
C4_Witness ==
    /\ last.id \in Probes
    /\ last.ret = FALSE
    /\ nrec > 501
    /\ recordedAt[last.id] = nrec

(***************************************************************************)
(* The reply chunker.  A text is a sequence of one-character strings.      *)
(***************************************************************************)
Alphabet == {"a", "b", ".", " ", "\n"}

\* the characters str.strip() removes, among those of Alphabet
Whitespace == {" ", "\n"}

Texts == UNION {[1..n -> Alphabet] : n \in 0..MaxTextLen}

\* index of the first occurrence of sep in s, 0 if there is none (str.find + 1)
find(s, sep) ==
    LET hits == {i \in 1..(Len(s) - Len(sep) + 1) : SubSeq(s, i, i + Len(sep) - 1) = sep}
    IN  IF hits = {} THEN 0 ELSE CHOOSE i \in hits : \A j \in hits : i <= j

RECURSIVE split(_, _)
\* str.split(sep): the pieces between the non-overlapping occurrences of sep,
\* scanned from the left; always at least one piece
split(s, sep) ==
    LET i == find(s, sep)
    IN  IF i = 0
        THEN <<s>>
        ELSE <<SubSeq(s, 1, i - 1)>> \o split(SubSeq(s, i + Len(sep), Len(s)), sep)

RECURSIVE lstrip(_)
lstrip(s) == IF s # <<>> /\ Head(s) \in Whitespace THEN lstrip(Tail(s)) ELSE s

RECURSIVE rstrip(_)
rstrip(s) ==
    IF s # <<>> /\ s[Len(s)] \in Whitespace THEN rstrip(SubSeq(s, 1, Len(s) - 1)) ELSE s

\* str.strip()
strip(s) == rstrip(lstrip(s))

RECURSIVE sentence_loop(_, _, _, _, _)
\* the loop over sentences and the final append (facebook_app.py:113-126)
sentence_loop(sentences, i, current_chunk, chunks, maxlen) ==
    IF i > Len(sentences)
    THEN IF current_chunk # <<>> THEN Append(chunks, strip(current_chunk)) ELSE chunks
    ELSE LET sentence == sentences[i]
         IN  IF current_chunk # <<>> /\ Len(current_chunk) + Len(sentence) + 2 > maxlen
             THEN sentence_loop(sentences, i + 1, sentence,
                                Append(chunks, strip(current_chunk)), maxlen)
             ELSE IF current_chunk # <<>>
                  THEN sentence_loop(sentences, i + 1,
                                     current_chunk \o <<".", " ">> \o sentence, chunks, maxlen)
                  ELSE sentence_loop(sentences, i + 1, sentence, chunks, maxlen)

\* mutant: the guard of the sentence loop forgets the two characters of the
\* ". " it puts back between two sentences
sentence_pass_no_separator(txt, maxlen) ==
    sentence_loop(split(txt, <<".", " ">>), 1, <<>>, <<>>, maxlen + 2)

\* chunks after the sentence pass (facebook_app.py:107-126)
sentence_pass(txt, maxlen) ==
    sentence_loop(split(txt, <<".", " ">>), 1, <<>>, <<>>, maxlen)

RECURSIVE line_loop(_, _, _, _, _)
\* the loop over the lines of one long chunk and its final append
\* (facebook_app.py:136-148)
line_loop(lines, i, temp_chunk, final_chunks, maxlen) ==
    IF i > Len(lines)
    THEN IF temp_chunk # <<>> THEN Append(final_chunks, strip(temp_chunk)) ELSE final_chunks
    ELSE LET line == lines[i]
         IN  IF Len(temp_chunk) + Len(line) + 1 > maxlen
             THEN line_loop(lines, i + 1, line,
                            IF temp_chunk # <<>>
                            THEN Append(final_chunks, strip(temp_chunk))
                            ELSE final_chunks,
                            maxlen)
             ELSE IF temp_chunk # <<>>
                  THEN line_loop(lines, i + 1, temp_chunk \o <<"\n">> \o line,
                                 final_chunks, maxlen)
                  ELSE line_loop(lines, i + 1, line, final_chunks, maxlen)

RECURSIVE newline_pass(_, _, _, _)
\* final_chunks: the chunks still too long are split by newlines
\* (facebook_app.py:128-148)
newline_pass(chunks, i, final_chunks, maxlen) ==
    IF i > Len(chunks)
    THEN final_chunks
    ELSE IF Len(chunks[i]) <= maxlen
         THEN newline_pass(chunks, i + 1, Append(final_chunks, chunks[i]), maxlen)
         ELSE newline_pass(chunks, i + 1,
                           line_loop(split(chunks[i], <<"\n">>), 1, <<>>, final_chunks, maxlen),
                           maxlen)

\* mutant: a chunk that is too long is passed on whole
hard_split_none(chunk, maxlen) == <<chunk>>

RECURSIVE hard_split(_, _)
\* [chunk[i:i + max_length] for i in range(0, len(chunk), max_length)]
\* (facebook_app.py:157-158)
hard_split(chunk, maxlen) ==
    IF Len(chunk) = 0
    THEN <<>>
    ELSE IF Len(chunk) <= maxlen
         THEN <<chunk>>
         ELSE <<SubSeq(chunk, 1, maxlen)>>
                 \o hard_split(SubSeq(chunk, maxlen + 1, Len(chunk)), maxlen)

RECURSIVE hard_split_pass(_, _, _, _)
\* really_final_chunks (facebook_app.py:150-158)
hard_split_pass(final_chunks, i, really_final_chunks, maxlen) ==
    IF i > Len(final_chunks)
    THEN really_final_chunks
    ELSE IF Len(final_chunks[i]) <= maxlen
         THEN hard_split_pass(final_chunks, i + 1,
                              Append(really_final_chunks, final_chunks[i]), maxlen)
         ELSE hard_split_pass(final_chunks, i + 1,
                              really_final_chunks \o hard_split(final_chunks[i], maxlen), maxlen)

\* mutant: the early return for a short text is missing
split_message_no_early_return(txt, maxlen) ==
    hard_split_pass(newline_pass(sentence_pass(txt, maxlen), 1, <<>>, maxlen), 1, <<>>, maxlen)

\* facebook_app.py:92-160
split_message_for_social_media(txt, maxlen) ==
    IF Len(txt) <= maxlen
    THEN <<txt>>
    ELSE hard_split_pass(newline_pass(sentence_pass(txt, maxlen), 1, <<>>, maxlen),
                         1, <<>>, maxlen)

\* mutant: the copy has lost its newline pass
split_message_for_instagram_drifted(txt, maxlen) ==
    IF Len(txt) <= maxlen
    THEN <<txt>>
    ELSE hard_split_pass(sentence_pass(txt, maxlen), 1, <<>>, maxlen)

\* instagram_app.py:82-150 (the same body as split_message_for_social_media)
split_message_for_instagram(txt, maxlen) ==
    IF Len(txt) <= maxlen
    THEN <<txt>>
    ELSE hard_split_pass(newline_pass(sentence_pass(txt, maxlen), 1, <<>>, maxlen),
                         1, <<>>, maxlen)

\* discord_bot.py:21-54 (the sentence pass, then the hard split: no newline pass)
split_message_for_discord(txt, maxlen) ==
    IF Len(txt) <= maxlen
    THEN <<txt>>
    ELSE hard_split_pass(sentence_pass(txt, maxlen), 1, <<>>, maxlen)

(***************************************************************************)
(* SpecChunk: one reply text is chunked by one of the three copies.        *)
(***************************************************************************)
ChunkInit ==
    /\ text \in Texts
    /\ max_length \in 1..MaxMaxLength
    /\ chunker = "none"
    /\ message_chunks = <<>>

\* message_chunks = split_message_for_social_media(reply) (facebook_app.py:418, 518)
ChunkSocialMedia ==
    /\ chunker = "none"
    /\ message_chunks' = split_message_for_social_media(text, max_length)
    /\ chunker' = "social_media"
    /\ UNCHANGED <<text, max_length, dedupVars, hookVars, verifyVars, pollVars, sendVars, cacheVars>>

\* message_chunks = split_message_for_instagram(reply) (instagram_app.py:688, 774)
ChunkInstagram ==
    /\ chunker = "none"
    /\ message_chunks' = split_message_for_instagram(text, max_length)
    /\ chunker' = "instagram"
    /\ UNCHANGED <<text, max_length, dedupVars, hookVars, verifyVars, pollVars, sendVars, cacheVars>>

\* chunks = split_message_for_discord(reply) (discord_bot.py:77)
ChunkDiscord ==
    /\ chunker = "none"
    /\ message_chunks' = split_message_for_discord(text, max_length)
    /\ chunker' = "discord"
    /\ UNCHANGED <<text, max_length, dedupVars, hookVars, verifyVars, pollVars, sendVars, cacheVars>>

ChunkNext == ChunkSocialMedia \/ ChunkInstagram \/ ChunkDiscord

ChunkSpecInit == ChunkInit /\ DedupIdle /\ HookIdle /\ VerifyIdle /\ RestIdle

SpecChunk == ChunkSpecInit /\ [][ChunkNext]_vars

(***************************************************************************)
(* Claims about the chunker, checked under SpecChunk.                      *)
(***************************************************************************)
Ran == chunker # "none"

\* C7: for every text and max_length with len(text) <= max_length the chunker
\* returns the single-element list [text], the text unchanged (not trimmed).
C7_ShortTextUnchanged ==
    (Ran /\ Len(text) <= max_length) => message_chunks = <<text>>

\* a short text with whitespace at both ends has been chunked
C7_Witness ==
    /\ Ran
    /\ Len(text) <= max_length
    /\ Len(text) = 3
    /\ text[1] \in Whitespace
    /\ text[3] \in Whitespace
    /\ message_chunks = <<text>>

\* C8: for every text and every max_length >= 1, every chunk returned has
\* length <= max_length.
C8_ChunkLengthBound ==
    Ran => \A i \in 1..Len(message_chunks) : Len(message_chunks[i]) <= max_length

\* a text with no sentence or line boundary was cut by the hard split
C8_Witness ==
    /\ Ran
    /\ Len(text) > max_length
    /\ \A i \in 1..Len(text) : text[i] \in {"a", "b"}
    /\ Len(message_chunks) >= 2

\* the text without its whitespace characters
NonWS(s) == SelectSeq(s, LAMBDA c : c \notin Whitespace)

RECURSIVE Rejoined(_)
\* the texts, whitespace removed, that joining the chunks in order can give:
\* each boundary is joined with ". " (leaving a period), "\n" or nothing
Rejoined(chunks) ==
    IF chunks = <<>>
    THEN {<<>>}
    ELSE IF Len(chunks) = 1
         THEN {NonWS(chunks[1])}
         ELSE LET h == NonWS(Head(chunks))
                  rest == Rejoined(Tail(chunks))
              IN  {h \o r : r \in rest} \cup {h \o <<".">> \o r : r \in rest}

\* C9: the chunks, joined in order with the separator of each boundary
\* (". ", newline or nothing), give back the text up to whitespace: no
\* non-whitespace character is lost, duplicated or reordered.
C9_Coverage ==
    chunker \in {"social_media", "instagram"} => NonWS(text) \in Rejoined(message_chunks)

\* C10 as stated: the chunker returns a non-empty list if and only if the
\* text is non-empty.
C10_NonEmptyIff ==
    Ran => (message_chunks # <<>> <=> text # <<>>)

\* the text is one or more ". " delimiters and nothing else
DelimitersOnly(t) ==
    /\ Len(t) > 0
    /\ Len(t) % 2 = 0
    /\ \A i \in 1..Len(t) : t[i] = IF i % 2 = 1 THEN "." ELSE " "

\* the case in which the chunker does return the empty list: the text is
\* longer than max_length and consists only of ". " delimiters (every
\* sentence is empty, so the sentence pass never fills its buffer)
EmptyListExactlyForDelimiters ==
    Ran => (message_chunks = <<>> <=> (Len(text) > max_length /\ DelimitersOnly(text)))

\* s occurs in c as a run of consecutive characters
Contains(c, s) ==
    \E o \in 0..(Len(c) - Len(s)) : SubSeq(c, o + 1, o + Len(s)) = s

\* the sentences of the text: the pieces between its ". " delimiters
Sentences == split(text, <<".", " ">>)

\* C11: a sentence no longer than max_length is never split: all its
\* characters (up to the whitespace trimmed at chunk ends) are in one chunk;
\* only a sentence itself longer than max_length is cut by the newline pass or
\* the hard split: every chunk the sentence pass leaves longer than
\* max_length is one such sentence, and every other chunk of the sentence
\* pass is returned whole.
C11_ShortSentenceNotSplit ==
    (chunker \in {"social_media", "instagram"} /\ Len(text) > max_length) =>
        LET sp == sentence_pass(text, max_length)
        IN  /\ \A k \in 1..Len(Sentences) :
                  (Len(Sentences[k]) <= max_length /\ strip(Sentences[k]) # <<>>)
                     => \E j \in 1..Len(message_chunks) :
                           Contains(message_chunks[j], strip(Sentences[k]))
            /\ \A i \in 1..Len(sp) :
                  IF Len(sp[i]) > max_length
                  THEN \E k \in 1..Len(Sentences) :
                          Len(Sentences[k]) > max_length /\ sp[i] = strip(Sentences[k])
                  ELSE \E j \in 1..Len(message_chunks) : message_chunks[j] = sp[i]

\* a text with a short sentence and a sentence longer than max_length was
\* chunked: the long one was cut, the short one is a chunk of its own
C11_Witness ==
    /\ chunker \in {"social_media", "instagram"}
    /\ Len(text) > max_length
    /\ \E k \in 1..Len(Sentences) : Len(Sentences[k]) > max_length
    /\ \E k \in 1..Len(Sentences) :
          /\ Len(Sentences[k]) <= max_length
          /\ strip(Sentences[k]) # <<>>
          /\ \E j \in 1..Len(message_chunks) : message_chunks[j] = Sentences[k]
    /\ Len(message_chunks) >= 3

(***************************************************************************)
(* The webhook handlers.  A handler runs on the event loop of its process  *)
(* and gives up control only at an await: every action below is the code   *)
(* between two awaits.  The content of the events a step reads is drawn    *)
(* when the step reads it.                                                 *)
(***************************************************************************)
\* the settings a process reads from its environment at import: the Slack
\* signing secret, and whether the fallback credentials (org id and connected
\* account id) are both set
Envs(a) ==
    IF a = "slack"
    THEN [SLACK_SIGNING_SECRET : {"", "s3cret"}, ORG_AND_ACCOUNT : {FALSE}]
    ELSE [SLACK_SIGNING_SECRET : {""}, ORG_AND_ACCOUNT : BOOLEAN]

\* the window a process keeps for its message events
MessageWindow(a) ==
    CASE a = "slack" -> "slack_event"
      [] a = "facebook" -> "facebook_message"
      [] a = "instagram" -> "instagram_message"

Abs(x) == IF x < 0 THEN 0 - x ELSE x

\* X-Slack-Request-Timestamp: absent or empty, not the text of an integer,
\* or an integer number of seconds
SlackTimestamps ==
    {[kind |-> "absent", val |-> 0], [kind |-> "malformed", val |-> 0],
     [kind |-> "int", val |-> 1000]}

\* hmac.new(key, "v0:" + ts + ":" + body, sha256).hexdigest(), taken as
\* collision free: it is equal for equal key, timestamp and body only
hmac_sha256(key, ts, body) == [key |-> key, ts |-> ts, body |-> body]

NoSignature ==
    [kind |-> "absent", prefix |-> "", mac |-> hmac_sha256("", 0, "")]

\* X-Slack-Signature: absent or empty, or a version prefix and a digest made
\* with some key over some timestamp and body
SlackSignatures ==
    {NoSignature}
    \cup [kind : {"present"}, prefix : {"v0=", "v1="},
          mac : {hmac_sha256(k, t, b) : k \in {"s3cret", "guess"}, t \in {1000, 999},
                                        b \in {"body", "forged"}}]

\* the signature Slack makes for the body with the secret "s3cret"
GoodSignature ==
    [kind |-> "present", prefix |-> "v0=", mac |-> hmac_sha256("s3cret", 1000, "body")]

\* the age of the timestamp when it is checked, in half seconds (time.time()
\* is a float): around both ends of the five-minute window, and zero
Ages == {0 - 602, 0 - 601, 0 - 600, 0 - 598, 0, 598, 600, 601, 602}

\* the signature headers of a request and the clock read by the check, in
\* half seconds; raw_body is "body"
SlackHeaders ==
    [timestamp : {t \in SlackTimestamps : t.kind # "int"},
     signature : {NoSignature, GoodSignature}, now : {2000}]
    \cup [timestamp : {t \in SlackTimestamps : t.kind = "int"},
          signature : SlackSignatures, now : {2000 + d : d \in Ages}]

\* headers Slack itself sends: fresh timestamp, signature by the secret
GoodHeaders ==
    [timestamp |-> [kind |-> "int", val |-> 1000], signature |-> GoodSignature, now |-> 2000]

\* mutant: the window is checked against the past only
verify_slack_signature_past_only(h, secret) ==
    IF secret = ""
    THEN "accepted"
    ELSE IF h.timestamp.kind = "absent" \/ h.signature.kind = "absent"
    THEN "missing_headers"
    ELSE IF h.timestamp.kind = "malformed"
    THEN "ValueError"
    ELSE IF h.now - 2 * h.timestamp.val > 2 * (60 * 5)
    THEN "too_old"
    ELSE IF h.signature # [kind |-> "present", prefix |-> "v0=",
                           mac |-> hmac_sha256(secret, h.timestamp.val, "body")]
    THEN "invalid_signature"
    ELSE "accepted"

\* verify_slack_signature (slack_app.py:166-184): "accepted" when it returns,
\* else the HTTPException it raises (all with status 401) or the ValueError
\* of int(timestamp)
verify_slack_signature(h, secret) ==
    IF secret = ""
    THEN "accepted"
    ELSE IF h.timestamp.kind = "absent" \/ h.signature.kind = "absent"
    THEN "missing_headers"
    ELSE IF h.timestamp.kind = "malformed"
    THEN "ValueError"
    ELSE IF Abs(h.now - 2 * h.timestamp.val) > 2 * (60 * 5)
    THEN "too_old"
    ELSE IF h.signature # [kind |-> "present", prefix |-> "v0=",
                           mac |-> hmac_sha256(secret, h.timestamp.val, "body")]
    THEN "invalid_signature"
    ELSE "accepted"

\* mutant: the mode of the handshake is not looked at
webhook_verify_any_mode(hub_mode, hub_verify_token, hub_challenge, VERIFY_TOKEN) ==
    IF hub_verify_token = VERIFY_TOKEN
    THEN [status |-> 200, media |-> "text/plain", body |-> hub_challenge]
    ELSE [status |-> 403, media |-> "application/json", body |-> "Verification failed"]

\* facebook_webhook_verify (facebook_app.py:307-329) and
\* instagram_webhook_verify (instagram_app.py:547-569): PlainTextResponse of
\* the challenge, or HTTPException(403)
webhook_verify(hub_mode, hub_verify_token, hub_challenge, VERIFY_TOKEN) ==
    IF hub_mode = "subscribe" /\ hub_verify_token = VERIFY_TOKEN
    THEN [status |-> 200, media |-> "text/plain", body |-> hub_challenge]
    ELSE [status |-> 403, media |-> "application/json", body |-> "Verification failed"]

\* the requests put to the three checks, with the setting of the process the
\* check compares with: the signature headers of a Slack request, the query
\* parameters of a GET handshake.  The fields a check does not read are fixed.
VerifyRequests ==
    [endpoint : {"slack"}, secret : {"", "s3cret"}, headers : SlackHeaders,
     hub_mode : {""}, hub_verify_token : {""}, hub_challenge : {""}]
    \cup [endpoint : {"facebook", "instagram"}, secret : {"", "tok"}, headers : {"none"},
          hub_mode : {"subscribe", "unsubscribe", "Subscribe", ""},
          hub_verify_token : {"tok", "bad", ""}, hub_challenge : {"c1", "c2", ""}]

VerifyInit ==
    /\ request \in VerifyRequests
    /\ response = NoResponse

\* verify_slack_signature(request, raw_body) is called (slack_app.py:258)
VerifySlackSignature ==
    /\ request.endpoint = "slack"
    /\ response = NoResponse
    /\ response' = [NoResponse EXCEPT
                       !.verdict = verify_slack_signature(request.headers, request.secret)]
    /\ UNCHANGED <<request, dedupVars, chunkVars, hookVars, pollVars, sendVars, cacheVars>>

\* GET /facebook/webhook
FacebookWebhookVerify ==
    /\ request.endpoint = "facebook"
    /\ response = NoResponse
    /\ \E out \in {webhook_verify(request.hub_mode, request.hub_verify_token,
                                  request.hub_challenge, request.secret)} :
          response' = [verdict |-> "answered", status |-> out.status,
                       media |-> out.media, body |-> out.body]
    /\ UNCHANGED <<request, dedupVars, chunkVars, hookVars, pollVars, sendVars, cacheVars>>

\* GET /instagram/webhook
InstagramWebhookVerify ==
    /\ request.endpoint = "instagram"
    /\ response = NoResponse
    /\ \E out \in {webhook_verify(request.hub_mode, request.hub_verify_token,
                                  request.hub_challenge, request.secret)} :
          response' = [verdict |-> "answered", status |-> out.status,
                       media |-> out.media, body |-> out.body]
    /\ UNCHANGED <<request, dedupVars, chunkVars, hookVars, pollVars, sendVars, cacheVars>>

VerifyNext == VerifySlackSignature \/ FacebookWebhookVerify \/ InstagramWebhookVerify

VerifySpecInit == VerifyInit /\ DedupIdle /\ ChunkIdle /\ HookIdle /\ RestIdle

SpecVerify == VerifySpecInit /\ [][VerifyNext]_vars

\* one item of entry["messaging"]: kind says which test of the handler the
\* item stops at; scope, whether the account map has the page of the entry.
\* The fields the handler never uses of an item it skips are fixed.
MessagingEvents ==
    [mid : {NoId}, kind : {"no_message", "empty_text", "echo"}, scope : {"mapped"}]
    \cup [mid : {NoId} \cup EventIds, kind : {"message"}, scope : {"mapped", "unmapped"}]

SeqsOfLen(S, n) == [1..n -> S]

\* what a step did with one event: the duplicate check, the test the event
\* stopped at; for a reply, how the chat backend answered, the chunks of the
\* reply, the chunk the step tried to send and what the send did
Handled(w, id, dedup, changed, outcome) ==
    [window |-> w, id |-> id, dedup |-> dedup, window_changed |-> changed,
     outcome |-> outcome, req |-> "none", kind |-> "none", scope |-> "none", fallback |-> FALSE,
     backend |-> "none", reply |-> "none", total |-> 0, chunk |-> 0, send |-> "none"]

\* the records of a step, marked with the request the step belongs to
StepOf(r, s) == [i \in DOMAIN s |-> [s[i] EXCEPT !.req = r]]

\* mutant: the identifier is passed to the filter whether it is empty or not
dedup_check_always(ids, index, id) ==
    LET d == is_duplicate(ids, index, id)
    IN  [ret |-> d.ret, ids |-> d.ids, index |-> d.index, dedup |-> "called"]

\* `message_id and _is_duplicate(message_id)` (facebook_app.py:390,
\* slack_app.py:264, instagram_app.py:658)
dedup_check(ids, index, id) ==
    IF id # NoId
    THEN LET d == is_duplicate(ids, index, id)
         IN  [ret |-> d.ret, ids |-> d.ids, index |-> d.index, dedup |-> "called"]
    ELSE [ret |-> FALSE, ids |-> ids, index |-> index, dedup |-> "skipped"]

\* mutant: the lookup never fails
resolve_scope_any(a, e, scope) == TRUE

\* the lookup of the account succeeds: resolve_workspace (slack_app.py:212-219)
\* needs the map, resolve_page (facebook_app.py:285-304) the map or the
\* fallback credentials, get_composio_account (instagram_app.py:249-264) the
\* credentials of the environment
resolve_scope(a, e, scope) ==
    CASE a = "slack" -> scope \in {"mapped", "mapped_no_bot_user_id"}
      [] a = "facebook" -> scope = "mapped" \/ e.ORG_AND_ACCOUNT
      [] a = "instagram" -> e.ORG_AND_ACCOUNT

RECURSIVE messaging_loop(_, _, _, _, _)
\* mutant: an event whose lookup fails is taken out of the window again
messaging_step_unknown_scope_forgotten(w, e, n, ids, index, done, d) ==
    LET h == [Handled(w, e.mid, d.dedup, d.ids # ids \/ d.index # index, "dispatched")
                 EXCEPT !.kind = e.kind, !.scope = e.scope, !.fallback = env.ORG_AND_ACCOUNT]
    IN  IF d.ret
        THEN messaging_loop(w, n - 1, d.ids, d.index,
                            Append(done, [h EXCEPT !.outcome = "duplicate"]))
        ELSE IF ~resolve_scope(app, env, e.scope)
             THEN messaging_loop(w, n - 1, ids, index,
                                 Append(done, [h EXCEPT !.outcome = "unknown_scope"]))
             ELSE {[pc |-> "backend", left |-> n - 1, mid |-> e.mid,
                    dispatch |-> TRUE, ids |-> d.ids, index |-> d.index,
                    seg |-> Append(done, h)]}

\* the body of the loop for the event e from the duplicate check on, d being
\* what the check returned and n the events of the payload not yet handled,
\* e included (facebook_app.py:390-411, instagram_app.py:658-679)
messaging_step(w, e, n, ids, index, done, d) ==
    LET h == [Handled(w, e.mid, d.dedup, d.ids # ids \/ d.index # index, "dispatched")
                 EXCEPT !.kind = e.kind, !.scope = e.scope, !.fallback = env.ORG_AND_ACCOUNT]
    IN  IF d.ret
        THEN messaging_loop(w, n - 1, d.ids, d.index,
                            Append(done, [h EXCEPT !.outcome = "duplicate"]))
        ELSE IF ~resolve_scope(app, env, e.scope)
             THEN messaging_loop(w, n - 1, d.ids, d.index,
                                 Append(done, [h EXCEPT !.outcome = "unknown_scope"]))
             ELSE {[pc |-> "backend", left |-> n - 1, mid |-> e.mid,
                    dispatch |-> TRUE, ids |-> d.ids, index |-> d.index,
                    seg |-> Append(done, h)]}

\* `for event in messaging_events` up to the await of the chat backend or the
\* end of the payload (facebook_app.py:369-411, instagram_app.py:626-679),
\* for a payload with n events left, whatever they are: the set of the ways
\* the loop can end
messaging_loop(w, n, ids, index, done) ==
    IF n = 0
    THEN {[pc |-> "done", left |-> 0, mid |-> NoId, dispatch |-> FALSE,
           ids |-> ids, index |-> index, seg |-> done]}
    ELSE UNION {IF e.kind # "message"
                THEN messaging_loop(w, n - 1, ids, index,
                                    Append(done, [Handled(w, e.mid, "none", FALSE, "skipped")
                                                     EXCEPT !.kind = e.kind]))
                ELSE messaging_step(w, e, n, ids, index, done, dedup_check(ids, index, e.mid))
                : e \in MessagingEvents}

\* the globals and the request after a run of the messaging loop; done holds
\* what the step did before it came (back) to the loop.  At the end of the
\* payload the handler returns JSONResponse({"ok": True})
RunMessagingLoop(r, n, done) ==
    \E w \in {MessageWindow(app)} :
    \E out \in messaging_loop(w, n, processed_ids[w], processed_index[w], done) :
        /\ processed_ids' = [processed_ids EXCEPT ![w] = out.ids]
        /\ processed_index' = [processed_index EXCEPT ![w] = out.index]
        /\ seg' = StepOf(r, out.seg)
        /\ dispatched' = IF out.dispatch /\ out.mid # NoId
                         THEN [dispatched EXCEPT ![out.mid] = @ + 1]
                         ELSE dispatched
        /\ req' = [req EXCEPT ![r] = [NewRequest EXCEPT
                       !.pc = out.pc, !.left = out.left, !.mid = out.mid,
                       !.gate = "open",
                       !.status = IF out.pc = "done" THEN 200 ELSE 0,
                       !.body = IF out.pc = "done" THEN "ok_true" ELSE "none"]]

\* json.loads failed: HTTPException(400) (facebook_app.py:341-348,
\* instagram_app.py:581-588, slack_app.py:240-244)
InvalidJson(r) ==
    /\ req' = [req EXCEPT ![r] = [NewRequest EXCEPT !.pc = "done", !.gate = "bad_json",
                                     !.status = 400, !.body = "detail"]]
    /\ seg' = <<>>
    /\ UNCHANGED <<processed_ids, processed_index, dispatched>>

\* POST /facebook/webhook with object "page": the body is read and the events
\* are handled up to the first await (facebook_app.py:332-411)
FacebookWebhook(r) ==
    /\ app = "facebook"
    /\ req[r].pc = "new"
    /\ \/ InvalidJson(r)
       \/ \E n \in 0..MaxEvents : RunMessagingLoop(r, n, <<>>)
    /\ UNCHANGED <<app, env, faults, commentTasks>>
    /\ UNCHANGED <<driverVars, chunkVars, verifyVars, pollVars, sendVars, cacheVars>>

\* the record of a messaging event the handler returned without reading
Unread(e) ==
    [Handled("instagram_message", e.mid, "none", FALSE, "unread")
        EXCEPT !.kind = e.kind, !.scope = e.scope]

\* POST /instagram/webhook (instagram_app.py:572-679): a payload with a
\* "comments" change is handed to a task and acknowledged at once, whatever
\* messaging events the payload has beside it (instagram_app.py:595-605)
InstagramWebhook(r) ==
    /\ app = "instagram"
    /\ req[r].pc = "new"
    /\ \/ InvalidJson(r)
       \/ \E ncomments \in 0..MaxEvents :
             IF ncomments > 0
             THEN /\ req' = [req EXCEPT ![r] = [NewRequest EXCEPT
                                !.pc = "comment_task", !.left = ncomments,
                                !.gate = "open", !.status = 200, !.body = "ok_true"]]
                  /\ \E n \in 0..MaxEvents :
                     \E events \in SeqsOfLen(MessagingEvents, n) :
                        seg' = StepOf(r, [i \in 1..n |-> Unread(events[i])])
                  /\ UNCHANGED <<processed_ids, processed_index, dispatched>>
             ELSE \E n \in 0..MaxEvents : RunMessagingLoop(r, n, <<>>)
    /\ UNCHANGED <<app, env, faults, commentTasks>>
    /\ UNCHANGED <<driverVars, chunkVars, verifyVars, pollVars, sendVars, cacheVars>>

\* how the await of get_rag_chat_response ends (rag_chat_helpers.py:55-77):
\* with the text of the backend, or with one of the two apologies the helper
\* returns when the call timed out or failed
BackendOutcomes == IF faults THEN {"answer", "timeout", "error"} ELSE {"answer"}

\* mutant: a failure of the call is not replaced by an apology, the reply is
\* whatever text there is
get_rag_chat_response_no_apology(b) == "answer"

\* the reply for an outcome of the backend
get_rag_chat_response(b) == IF b = "answer" THEN "answer" ELSE "apology"

\* what a send does: the broker reports success, reports failure, or the call
\* raises
SendOutcomes == IF faults THEN {"successful", "unsuccessful", "raised"} ELSE {"successful"}

\* the numbers of chunks the chunker can give for a reply: an apology is
\* never made of ". " delimiters only, so it gives at least one chunk
ChunkCounts(reply) == IF reply = "answer" THEN 0..MaxChunks ELSE 1..MaxChunks

\* the record of one pass of `for i, chunk in enumerate(message_chunks)`; b
\* is the outcome of the backend if the step began with its return
Sent(w, id, b, total, chunk, s) ==
    [Handled(w, id, "none", FALSE, "reply") EXCEPT
        !.backend = b, !.reply = IF b = "none" THEN "none" ELSE get_rag_chat_response(b),
        !.total = total,
        !.chunk = chunk, !.send = s]

\* mutant: the send loop ends at the first chunk the broker does not accept
send_chunk_until_failure(r, b, total, chunk, s) ==
    \E w \in {MessageWindow(app)} :
    \E h \in {Sent(w, req[r].mid, b, total, chunk, s)} :
        IF chunk < total /\ s = "successful"
        THEN /\ req' = [req EXCEPT ![r].pc = "sleep", ![r].chunks = total - chunk,
                                   ![r].sent = chunk]
             /\ seg' = StepOf(r, <<h>>)
             /\ UNCHANGED <<processed_ids, processed_index, dispatched>>
        ELSE RunMessagingLoop(r, req[r].left, <<h>>)

\* one pass of the send loop (facebook_app.py:420-438, instagram_app.py:
\* 690-707): chunk number `chunk` of `total` is sent with outcome s.  A send
\* that raises ends the loop in the except clause; after the last chunk, or
\* then, the handler goes on with the next event; else it awaits the sleep
send_chunk(r, b, total, chunk, s) ==
    \E w \in {MessageWindow(app)} :
    \E h \in {Sent(w, req[r].mid, b, total, chunk, s)} :
        IF chunk < total /\ s # "raised"
        THEN /\ req' = [req EXCEPT ![r].pc = "sleep", ![r].chunks = total - chunk,
                                   ![r].sent = chunk]
             /\ seg' = StepOf(r, <<h>>)
             /\ UNCHANGED <<processed_ids, processed_index, dispatched>>
        ELSE RunMessagingLoop(r, req[r].left, <<h>>)

\* get_rag_chat_response returned: the reply is chunked and the first chunk
\* sent (facebook_app.py:411-438, instagram_app.py:679-707); a reply of no
\* chunk sends nothing
BackendReturns(r) ==
    /\ req[r].pc = "backend"
    /\ \E b \in BackendOutcomes :
       \E n \in ChunkCounts(get_rag_chat_response(b)) :
          IF n = 0
          THEN RunMessagingLoop(r, req[r].left,
                                <<Sent(MessageWindow(app), req[r].mid, b, 0, 0, "none")>>)
          ELSE \E s \in SendOutcomes : send_chunk(r, b, n, 1, s)
    /\ UNCHANGED <<app, env, faults, commentTasks>>
    /\ UNCHANGED <<driverVars, chunkVars, verifyVars, pollVars, sendVars, cacheVars>>

\* asyncio.sleep(0.5) returned: the next chunk is sent
\* (facebook_app.py:421-444, instagram_app.py:691-712)
SleepReturns(r) ==
    /\ req[r].pc = "sleep"
    /\ \E s \in SendOutcomes :
          send_chunk(r, "none", req[r].sent + req[r].chunks, req[r].sent + 1, s)
    /\ UNCHANGED <<app, env, faults, commentTasks>>
    /\ UNCHANGED <<driverVars, chunkVars, verifyVars, pollVars, sendVars, cacheVars>>

RECURSIVE comment_loop(_, _, _, _, _)
\* `for change in changes` of handle_instagram_comment_webhook
\* (instagram_app.py:817-854); tasks counts the process_instagram_comment
\* tasks it creates
comment_loop(cids, ids, index, tasks, done) ==
    IF cids = <<>>
    THEN [ids |-> ids, index |-> index, tasks |-> tasks, seg |-> done]
    ELSE LET comment_id == Head(cids)
         IN  IF comment_id = NoId
             THEN comment_loop(Tail(cids), ids, index, tasks,
                               Append(done, Handled("instagram_comment", comment_id, "skipped", FALSE, "missing_id")))
             ELSE LET d == is_duplicate(ids, index, comment_id)
                      changed == d.ids # ids \/ d.index # index
                  IN  IF d.ret
                      THEN comment_loop(Tail(cids), d.ids, d.index, tasks,
                               Append(done, Handled("instagram_comment", comment_id, "called", changed, "duplicate")))
                      ELSE comment_loop(Tail(cids), d.ids, d.index, tasks + 1,
                               Append(done, Handled("instagram_comment", comment_id, "called", changed, "reply_task")))

\* the task handle_instagram_comment_webhook runs; it awaits nothing
\* (instagram_app.py:803-854)
InstagramCommentTask(r) ==
    /\ req[r].pc = "comment_task"
    /\ \E cids \in SeqsOfLen({NoId} \cup EventIds, req[r].left) :
          \E w \in {"instagram_comment"} :
          \E out \in {comment_loop(cids, processed_ids[w], processed_index[w], 0, <<>>)} :
              /\ processed_ids' = [processed_ids EXCEPT ![w] = out.ids]
              /\ processed_index' = [processed_index EXCEPT ![w] = out.index]
              /\ commentTasks' = commentTasks + out.tasks
              /\ seg' = StepOf(r, out.seg)
    /\ req' = [req EXCEPT ![r].pc = "done", ![r].left = 0]
    /\ UNCHANGED <<app, env, faults, dispatched>>
    /\ UNCHANGED <<driverVars, chunkVars, verifyVars, pollVars, sendVars, cacheVars>>

\* a task process_instagram_comment runs: the fixed reply is posted
\* (instagram_app.py:857-891)
ProcessInstagramComment ==
    /\ commentTasks > 0
    /\ commentTasks' = commentTasks - 1
    /\ seg' = <<>>
    /\ UNCHANGED <<app, env, faults, req, dispatched, processed_ids, processed_index>>
    /\ UNCHANGED <<driverVars, chunkVars, verifyVars, pollVars, sendVars, cacheVars>>

\* what verify_slack_signature can do with the headers of a request, given
\* the secret of the process
Verdicts(secret) == {verify_slack_signature(h, secret) : h \in SlackHeaders}

\* a Slack request: whether the body parses and its type, what the signature
\* check does with its headers, the challenge, whether the payload carries an
\* event, the event's id, whether the account map has its team (and the bot's
\* user id), the kind of event by the tests of the handler, how run_agent
\* ends and what
\* send_slack_message does.  The fields the handler never reaches are fixed.
SlackPayload(type, verdict, challenge, has_event, event_id, scope, kind, agent, send) ==
    [type : type, verdict : verdict, challenge : challenge, has_event : has_event,
     event_id : event_id, scope : scope, kind : kind, agent : agent, send : send]

SlackPayloads(secret) ==
    SlackPayload({"invalid_json"}, {"accepted"}, {"none"}, {FALSE}, {NoId},
                 {"mapped"}, {"mention"}, {"answer"}, {"successful"})
    \cup SlackPayload({"url_verification"}, Verdicts(secret), {"c1", "c2"}, {FALSE}, {NoId},
                      {"mapped"}, {"mention"}, {"answer"}, {"successful"})
    \cup SlackPayload({"event_callback"}, Verdicts(secret) \ {"accepted"}, {"none"}, {TRUE},
                      {1}, {"mapped"}, {"mention"}, {"answer"}, {"successful"})
    \cup SlackPayload({"event_callback"}, {"accepted"}, {"none"}, {FALSE}, {NoId},
                      {"mapped"}, {"mention"}, {"answer"}, {"successful"})
    \cup SlackPayload({"event_callback"}, {"accepted"}, {"none"}, {TRUE}, {NoId} \cup EventIds,
                      {"mapped"}, {"bot_id", "no_team", "not_mention"},
                      {"answer"}, {"successful"})
    \cup SlackPayload({"event_callback"}, {"accepted"}, {"none"}, {TRUE}, {NoId} \cup EventIds,
                      {"unmapped"}, {"bot_id", "mention"}, {"answer"}, {"successful"})
    \cup SlackPayload({"event_callback"}, {"accepted"}, {"none"}, {TRUE}, {NoId} \cup EventIds,
                      {"mapped", "mapped_no_bot_user_id"}, {"self", "self_mention"},
                      {"answer"}, {"successful"})
    \cup SlackPayload({"event_callback"}, {"accepted"}, {"none"}, {TRUE}, {NoId} \cup EventIds,
                      {"mapped"}, {"mention"},
                      IF faults THEN {"answer", "raised"} ELSE {"answer"}, SendOutcomes)

\* what slack_events answers and leaves behind
SlackResult(status, body, gate, dispatch, ids, index, s) ==
    [status |-> status, body |-> body, gate |-> gate, dispatch |-> dispatch,
     ids |-> ids, index |-> index, seg |-> s]

\* mutant: the signature is checked before the type of the payload is looked at
slack_events_verify_first(p, ids, index) ==
    IF p.type = "invalid_json"
    THEN SlackResult(400, "detail", "bad_json", FALSE, ids, index, <<>>)
    ELSE IF p.verdict # "accepted"
    THEN SlackResult(401, "detail", "rejected", FALSE, ids, index, <<>>)
    ELSE IF p.type = "url_verification"
    THEN SlackResult(200, p.challenge, "challenge", FALSE, ids, index, <<>>)
    ELSE SlackResult(200, "ok_true", "accepted", FALSE, ids, index, <<>>)

\* `entry.get("bot_user_id") or SLACK_BOT_FALLBACK` (slack_app.py:218): the
\* user id of the bot, empty if neither the account map nor the environment
\* has it
bot_user_id(scope) == IF scope = "mapped" THEN "U_BOT" ELSE ""

\* is_bot_mention (slack_app.py:222-229) for the kinds of event: an
\* app_mention is one whoever wrote it; "self" is a plain message of the bot
\* user, "self_mention" an app_mention of the bot user
is_bot_mention(kind) == kind \in {"mention", "self_mention"}

\* the event of a verified payload (slack_app.py:259-322): run_agent and
\* send_slack_message are blocking calls; an exception of run_agent is
\* replaced by the default text, one of send_slack_message is not caught
slack_event(p, ids, index) ==
    LET d == dedup_check(ids, index, p.event_id)
        h == [Handled("slack_event", p.event_id, d.dedup,
                      d.ids # ids \/ d.index # index, "ignored")
                 EXCEPT !.kind = p.kind, !.scope = p.scope]
    IN  IF d.ret
        THEN SlackResult(200, "ok_true", "accepted", FALSE, d.ids, d.index,
                         <<[h EXCEPT !.outcome = "duplicate"]>>)
        ELSE IF p.kind \in {"bot_id", "no_team"}
        THEN SlackResult(200, "ok_true", "accepted", FALSE, d.ids, d.index, <<h>>)
        ELSE IF ~resolve_scope("slack", env, p.scope)
        THEN SlackResult(200, "ok_false", "accepted", FALSE, d.ids, d.index,
                         <<[h EXCEPT !.outcome = "unknown_scope"]>>)
        ELSE IF p.kind \in {"self", "self_mention"} /\ bot_user_id(p.scope) # ""
        THEN SlackResult(200, "ok_true", "accepted", FALSE, d.ids, d.index, <<h>>)
        ELSE IF ~is_bot_mention(p.kind)
        THEN SlackResult(200, "ok_true", "accepted", FALSE, d.ids, d.index, <<h>>)
        ELSE SlackResult(IF p.send = "raised" THEN 500 ELSE 200,
                         IF p.send = "raised" THEN "error" ELSE "ok_true",
                         "accepted", TRUE, d.ids, d.index,
                         <<[h EXCEPT !.outcome = "dispatched",
                                     !.backend = IF p.agent = "answer" THEN "answer" ELSE "error",
                                     !.reply = IF p.agent = "answer" THEN "answer" ELSE "apology",
                                     !.total = 1, !.chunk = 1, !.send = p.send]>>)

\* slack_events after the body is read; it awaits nothing more
\* (slack_app.py:239-322)
slack_events(p, ids, index) ==
    IF p.type = "invalid_json"
    THEN SlackResult(400, "detail", "bad_json", FALSE, ids, index, <<>>)
    ELSE IF p.type = "url_verification"
    THEN SlackResult(200, p.challenge, "challenge", FALSE, ids, index, <<>>)
    ELSE IF p.verdict = "ValueError"
    THEN SlackResult(500, "error", "raised", FALSE, ids, index, <<>>)
    ELSE IF p.verdict # "accepted"
    THEN SlackResult(401, "detail", "rejected", FALSE, ids, index, <<>>)
    ELSE IF ~p.has_event
    THEN SlackResult(200, "ok_true", "accepted", FALSE, ids, index, <<>>)
    ELSE slack_event(p, ids, index)

\* POST /slack/events (slack_app.py:232-322)
SlackEvents(r) ==
    /\ app = "slack"
    /\ req[r].pc = "new"
    /\ \E p \in SlackPayloads(env.SLACK_SIGNING_SECRET) :
          \E w \in {MessageWindow(app)} :
          \E out \in {slack_events(p, processed_ids[w], processed_index[w])} :
              /\ processed_ids' = [processed_ids EXCEPT ![w] = out.ids]
              /\ processed_index' = [processed_index EXCEPT ![w] = out.index]
              /\ seg' = StepOf(r, out.seg)
              /\ dispatched' = IF out.dispatch /\ p.event_id # NoId
                               THEN [dispatched EXCEPT ![p.event_id] = @ + 1]
                               ELSE dispatched
              /\ req' = [req EXCEPT ![r] = [NewRequest EXCEPT
                            !.pc = "done", !.type = p.type, !.verdict = p.verdict,
                            !.challenge = p.challenge, !.gate = out.gate,
                            !.status = out.status, !.body = out.body]]
    /\ UNCHANGED <<app, env, faults, commentTasks>>
    /\ UNCHANGED <<driverVars, chunkVars, verifyVars, pollVars, sendVars, cacheVars>>

\* a process that has handled nothing, two requests on their way to it; the
\* chat backend and the broker answer
HookInit ==
    /\ app \in Apps
    /\ env \in Envs(app)
    /\ faults = FALSE
    /\ req = [r \in Reqs |-> NewRequest]
    /\ dispatched = [i \in EventIds |-> 0]
    /\ seg = <<>>
    /\ commentTasks = 0

HookNext ==
    \/ \E r \in Reqs : SlackEvents(r)
    \/ \E r \in Reqs : FacebookWebhook(r)
    \/ \E r \in Reqs : InstagramWebhook(r)
    \/ \E r \in Reqs : BackendReturns(r)
    \/ \E r \in Reqs : SleepReturns(r)
    \/ \E r \in Reqs : InstagramCommentTask(r)
    \/ ProcessInstagramComment

HookSpecInit == HookInit /\ DedupIdle /\ ChunkIdle /\ VerifyIdle /\ RestIdle

SpecHooks == HookSpecInit /\ [][HookNext]_vars

\* a request whose payload had no entry: answered 200 {"ok": true}
EmptyRequest ==
    [NewRequest EXCEPT !.pc = "done", !.gate = "open", !.status = 200, !.body = "ok_true"]

\* a process with one request on its way; the chat backend and the broker
\* can fail
FaultInit ==
    /\ app \in Apps
    /\ env \in Envs(app)
    /\ faults = TRUE
    /\ req = [r \in Reqs |-> IF r = "r1" THEN NewRequest ELSE EmptyRequest]
    /\ dispatched = [i \in EventIds |-> 0]
    /\ seg = <<>>
    /\ commentTasks = 0

FaultSpecInit == FaultInit /\ DedupIdle /\ ChunkIdle /\ VerifyIdle /\ RestIdle

SpecFaults == FaultSpecInit /\ [][HookNext]_vars

(***************************************************************************)
(* Claims about the handlers, checked under SpecHooks.                     *)
(***************************************************************************)
\* outcomes of an event that went on past the duplicate check, as an event
\* with a new identifier does
PassedOn == {"dispatched", "unknown_scope", "ignored", "reply_task"}

\* the events of the latest step that came to the duplicate check without an
\* identifier
NoIdEvents == {i \in 1..Len(seg) : seg[i].dedup # "none" /\ seg[i].id = NoId}

\* C5 as stated: in every handler (Slack events, Facebook messages, Instagram
\* messages, Instagram comments) an event whose identifier is empty or absent
\* skips the dedup check, leaves the window unchanged and is processed as a
\* new event.
C5_NoIdProcessedAsNew ==
    \A i \in NoIdEvents :
        /\ seg[i].dedup = "skipped"
        /\ ~seg[i].window_changed
        /\ seg[i].outcome \in PassedOn

\* C5 (amended): an event without identifier skips the dedup check and leaves
\* the window unchanged in every handler; the Slack, Facebook and Instagram
\* message handlers then process it as a new event, the Instagram comment
\* handler drops it (no reply task is created for it).
C5_NoIdSkipsDedup ==
    \A i \in NoIdEvents :
        /\ seg[i].dedup = "skipped"
        /\ ~seg[i].window_changed
        /\ IF seg[i].window = "instagram_comment"
           THEN seg[i].outcome = "missing_id"
           ELSE seg[i].outcome \in PassedOn

\* a message without identifier was dispatched while the window held entries
C5_Witness ==
    /\ processed_ids[MessageWindow(app)] # <<>>
    /\ \E i \in NoIdEvents : seg[i].outcome = "dispatched"

\* the identifiers in a deque
Range(q) == {q[i] : i \in 1..Len(q)}

\* C6: under every interleaving of the requests of one process (control
\* switches at awaits only) an event identifier is dispatched to the chat
\* backend at most once while it stays in the window: at every suspension
\* point the set holds exactly the identifiers of the deque, and a handler
\* that awaits the backend or a sleep has already recorded its identifier.
C6_DispatchedAtMostOnce ==
    LET w == MessageWindow(app)
    IN  /\ \A id \in EventIds :
              /\ dispatched[id] <= 1
              /\ dispatched[id] = 1 => id \in processed_index[w]
        /\ Range(processed_ids[w]) = processed_index[w]
        /\ \A r \in Reqs :
              (req[r].pc \in {"backend", "sleep"} /\ req[r].mid # NoId)
                 => req[r].mid \in processed_index[w]

\* while one request awaits the backend or a sleep for an event, another
\* request delivered the same identifier and it was dropped as a duplicate
C6_Witness ==
    \E r1 \in Reqs, r2 \in Reqs :
        /\ r1 # r2
        /\ req[r1].pc \in {"backend", "sleep"}
        /\ req[r1].mid \in EventIds
        /\ dispatched[req[r1].mid] = 1
        /\ req[r2].pc = "done"
        /\ \E i \in 1..Len(seg) : seg[i].id = req[r1].mid /\ seg[i].outcome = "duplicate"

(***************************************************************************)
(* Claims about the signature check and the handshakes, checked under      *)
(* SpecVerify.                                                             *)
(***************************************************************************)
\* the Slack check has been made
SlackChecked == request.endpoint = "slack" /\ response.verdict # "none"

\* C12: verify_slack_signature accepts a request if and only if no signing
\* secret is configured, or the timestamp and signature headers are both
\* present, the timestamp is at most 300 seconds from the clock, and the
\* signature is "v0=" followed by the HMAC-SHA256 by the secret of
\* "v0:" timestamp ":" raw body.  (The clock is in half seconds.)
C12_AcceptedIff ==
    SlackChecked =>
        LET h == request.headers
        IN  (response.verdict = "accepted")
               <=> \/ request.secret = ""
                   \/ /\ h.timestamp.kind = "int"
                      /\ h.signature.kind = "present"
                      /\ Abs(h.now - 2 * h.timestamp.val) <= 2 * 300
                      /\ h.signature.prefix = "v0="
                      /\ h.signature.mac = hmac_sha256(request.secret, h.timestamp.val, "body")

\* a request signed by the secret with a timestamp 299 seconds old was
\* accepted
C12_Witness ==
    /\ SlackChecked
    /\ request.secret # ""
    /\ request.headers.now - 2 * request.headers.timestamp.val = 2 * 299
    /\ request.headers.signature = GoodSignature
    /\ response.verdict = "accepted"

\* a GET handshake has been answered
HandshakeAnswered ==
    request.endpoint \in {"facebook", "instagram"} /\ response.verdict = "answered"

\* C15: the GET handshake of Facebook and of Instagram echoes the challenge
\* verbatim as plain text if and only if hub.mode is exactly "subscribe" and
\* hub.verify_token equals the configured verify token; in every other case
\* it answers with an authorization failure and does not echo the challenge.
C15_EchoIff ==
    HandshakeAnswered =>
        IF request.hub_mode = "subscribe" /\ request.hub_verify_token = request.secret
        THEN /\ response.status = 200
             /\ response.media = "text/plain"
             /\ response.body = request.hub_challenge
        ELSE /\ response.status \in {401, 403}
             /\ response.body # request.hub_challenge

\* a handshake with the configured token and a challenge was echoed
C15_Witness ==
    /\ HandshakeAnswered
    /\ request.secret # ""
    /\ request.hub_challenge # ""
    /\ response.status = 200
    /\ response.body = request.hub_challenge

(***************************************************************************)
(* Claims about the Slack handler.                                         *)
(***************************************************************************)
\* the step handles the request r from its arrival to its response
Handles(r) == req[r].pc = "new" /\ req'[r].pc = "done"

\* C13: a Slack payload of type url_verification is answered with its
\* challenge before the signature check and before any other processing: it
\* is answered whatever the signature headers are, it leaves the dedup window
\* unchanged, and it dispatches nothing to the backend or the broker.
C13_ChallengeFirst ==
    [][\A r \in Reqs :
          (Handles(r) /\ req'[r].type = "url_verification")
             => /\ req'[r].status = 200
                /\ req'[r].body = req'[r].challenge
                /\ req'[r].gate = "challenge"
                /\ processed_ids' = processed_ids
                /\ processed_index' = processed_index
                /\ dispatched' = dispatched
                /\ seg' = <<>>]_vars

\* a url_verification whose headers fail the signature check was answered
\* with its challenge while the window held an identifier
C13_Witness ==
    \E r \in Reqs :
        /\ req[r].pc = "done"
        /\ req[r].type = "url_verification"
        /\ req[r].verdict \notin {"accepted", "none"}
        /\ req[r].body = req[r].challenge
        /\ processed_ids["slack_event"] # <<>>

\* C14 as stated: a request that fails the Slack signature check is answered
\* with HTTP 401 or 403 and causes no further processing: the dedup window is
\* unchanged, the chat backend is not called and nothing is sent.
C14_RejectedWith401Or403 ==
    [][\A r \in Reqs :
          (Handles(r) /\ req'[r].type = "event_callback" /\ req'[r].verdict # "accepted")
             => /\ req'[r].status \in {401, 403}
                /\ processed_ids' = processed_ids
                /\ processed_index' = processed_index
                /\ dispatched' = dispatched
                /\ seg' = <<>>]_vars

(***************************************************************************)
(* Claims about failures while an event is processed, checked under        *)
(* SpecFaults.                                                             *)
(***************************************************************************)
\* the request has been answered and was an event delivery the handler took
\* up: its body parsed, it was no url_verification, and it passed the
\* signature check where there is one
Delivered(r) == req[r].status # 0 /\ req[r].gate \in {"accepted", "open"}

\* C16 as stated: every POST event delivery (Slack, Facebook, Instagram)
\* that is not rejected by verification is answered with HTTP 200 and a body
\* whose ok field is true, also when the scope lookup, the chat backend call
\* or the outbound send failed while processing it.
C16_Always200OkTrue ==
    \A r \in Reqs : Delivered(r) => (req[r].status = 200 /\ req[r].body = "ok_true")

\* the step dispatched an event to the agent
Dispatches == seg' # <<>> /\ seg'[1].outcome = "dispatched"

\* the four ways a Slack request is said to end, for the request r the step
\* handles: ANSWERED, the challenge echoed; REJECTED, turned down with a 4xx
\* before any processing; SKIPPED, acknowledged without dispatch; REPLIED,
\* dispatched, the reply handed to the broker, acknowledged
Answered(r) ==
    req'[r].gate = "challenge" /\ req'[r].status = 200 /\ req'[r].body = req'[r].challenge

Rejected(r) ==
    req'[r].gate \in {"rejected", "bad_json"} /\ req'[r].status \in {400, 401, 403} /\ ~Dispatches

Skipped(r) == req'[r].gate = "accepted" /\ req'[r].status = 200 /\ ~Dispatches

Replied(r) ==
    /\ req'[r].gate = "accepted" /\ req'[r].status = 200
    /\ Dispatches /\ seg'[1].send \in {"successful", "unsuccessful"}

\* C17 as stated: every inbound Slack request ends in exactly one of the
\* outcomes ANSWERED, REJECTED, SKIPPED or REPLIED and always returns a
\* response; the backend is dispatched only for a request that is not a
\* url_verification, has passed signature verification, and whose event id
\* was reported new by the dedup filter or is absent.
C17_OneOfFourOutcomes ==
    [][\A r \in Reqs :
          (app = "slack" /\ Handles(r))
             => /\ Answered(r) \/ Rejected(r) \/ Skipped(r) \/ Replied(r)
                /\ Dispatches
                      => /\ req'[r].type = "event_callback"
                         /\ req'[r].verdict = "accepted"
                         /\ seg'[1].id = NoId \/ seg'[1].window_changed]_vars

(***************************************************************************)
(* Claims about the events of a step, checked under SpecHooks.             *)
(***************************************************************************)
\* the events of the latest step that came to the duplicate check and whose
\* scope id has no account mapping, on a process without fallback credentials
UnknownScopeEvents ==
    {i \in 1..Len(seg) :
        seg[i].dedup # "none" /\ seg[i].scope = "unmapped" /\ ~seg[i].fallback}

BackendFailures == {i \in 1..Len(seg) : seg[i].backend \in {"timeout", "error"}}

\* C19: when the call to the chat backend times out or fails for an event,
\* the handler substitutes an apology text and still proceeds to the send
\* step: the apology has at least one chunk and the first is handed to the
\* broker in the same step.
C19_ApologySent ==
    \A i \in BackendFailures :
        /\ seg[i].reply = "apology"
        /\ seg[i].total >= 1
        /\ seg[i].chunk = 1
        /\ seg[i].send \in {"successful", "unsuccessful", "raised"}

\* the backend timed out for an event and the apology was sent
C19_Witness ==
    \E i \in BackendFailures :
        /\ seg[i].backend = "timeout"
        /\ seg[i].reply = "apology"
        /\ seg[i].send = "successful"

\* the sends of the latest step that failed: the broker returned an
\* unsuccessful result or the call raised
FailedSends == {i \in 1..Len(seg) : seg[i].send \in {"unsuccessful", "raised"}}

\* a failed send leaves the response of its request the normal 200
\* acknowledgement
FailedSendKeeps200 ==
    \A i \in FailedSends :
        /\ req[seg[i].req].status \in {0, 200}
        /\ req[seg[i].req].status = 200 => req[seg[i].req].body = "ok_true"

\* the step sends a chunk for the request whose previous chunk was sent by
\* the step before
NextChunkOf(r) ==
    /\ req[r].pc = "sleep"
    /\ seg # <<>> /\ seg[Len(seg)].req = r /\ seg[Len(seg)].send # "none"
    /\ seg' # <<>> /\ seg'[1].req = r /\ seg'[1].send # "none"

\* every chunk is attempted once: the send after a sleep is that of the next
\* chunk of the same reply, whatever the send before it returned, and there
\* is none after a send that raised
NoChunkSentAgain ==
    \A r \in Reqs :
        NextChunkOf(r) => /\ seg'[1].chunk = seg[Len(seg)].chunk + 1
                          /\ seg'[1].total = seg[Len(seg)].total
                          /\ seg'[1].chunk <= seg'[1].total
                          /\ seg[Len(seg)].send # "raised"

\* C20 as stated: an outbound send that fails (the broker returns an
\* unsuccessful result or the call raises) is never retried, every chunk of
\* a reply being attempted at most once, and the failure does not change the
\* webhook response, which remains the normal 200 acknowledgement.
C20_NoRetryAnd200 == []FailedSendKeeps200 /\ [][NoChunkSentAgain]_vars

(***************************************************************************)
(* The Telegram poll loop (telegram_poll.py).  It is the only coroutine of *)
(* its process: a fetch, the handling of one update and a sleep are its    *)
(* steps.  Telegram numbers the updates of a bot upwards and answers a     *)
(* fetch with the updates from the offset on, oldest first.                *)
(***************************************************************************)
\* an update carries a message with chat id and text, or it does not
UpdateKinds == {"text", "no_text"}

\* TELEGRAM_GET_UPDATES with offset o and limit=20 (telegram_poll.py:50-54,
\* 60): without offset the updates Telegram still holds, all of them here
get_updates(o, ups) ==
    LET from == IF o = NoOffset THEN 1 ELSE o
    IN  [i \in 1..Min(Len(ups) - from + 1, 20) |->
            [update_id |-> from + i - 1, kind |-> ups[from + i - 1]]]

\* what a send does: the broker reports success, reports failure, or the
\* call raises
TgSendOutcomes == {"successful", "unsuccessful", "raised"}

\* handle_update (telegram_poll.py:23-43), as the set of the ways it can end.
\* get_rag_chat_response returns a text whatever the backend does; a send
\* that raises is followed by the send of the error message, and if that one
\* raises too the exception leaves handle_update
handle_update(update) ==
    IF update.kind = "no_text"
    THEN {[ret |-> "returned", kind |-> "skipped", sends |-> <<>>]}
    ELSE {[ret |-> "returned", kind |-> "replied", sends |-> <<s>>]
             : s \in TgSendOutcomes \ {"raised"}}
         \cup {[ret |-> IF s = "raised" THEN "raised" ELSE "returned",
                kind |-> IF s = "raised" THEN "raised" ELSE "apologised",
                sends |-> <<"raised", s>>] : s \in TgSendOutcomes}

\* mutant: the cursor is set to the update id itself
next_offset_same(update_id) == update_id

\* `offset = update_id + 1` (telegram_poll.py:67-69); every update of
\* Telegram has an update_id
next_offset(update_id) == update_id + 1

\* mutant: an exception ends the loop
on_error_stop(p) == [p EXCEPT !.pc = "stopped"]

\* an unsuccessful fetch result (telegram_poll.py:55-58) and the except
\* clause of the loop (telegram_poll.py:70-72): log, then sleep
on_error(p) == [p EXCEPT !.pc = "sleep"]

\* the ghost record of a step
TgStep(kind, update_id, sends) == [kind |-> kind, update_id |-> update_id, sends |-> sends]

PollInit ==
    /\ offset = NoOffset
    /\ poll = [pc |-> "fetch", batch |-> <<>>, pos |-> 0]
    /\ tg_updates = <<>>
    /\ tg_step = TgStep("start", 0, <<>>)

\* a user sends something to the bot
TgArrive ==
    /\ Len(tg_updates) < MaxUpdates
    /\ \E k \in UpdateKinds : tg_updates' = Append(tg_updates, k)
    /\ UNCHANGED <<offset, poll, tg_step>>
    /\ UNCHANGED <<dedupVars, chunkVars, hookVars, verifyVars, sendVars, cacheVars>>

\* the fetch returns a successful result (telegram_poll.py:50-63): without
\* updates the loop sleeps, with updates it enters the for loop
TgFetchOk ==
    /\ poll.pc = "fetch"
    /\ \E updates \in {get_updates(offset, tg_updates)} :
          IF updates = <<>>
          THEN /\ poll' = [poll EXCEPT !.pc = "sleep"]
               /\ tg_step' = TgStep("fetch_empty", 0, <<>>)
          ELSE /\ poll' = [pc |-> "batch", batch |-> updates, pos |-> 1]
               /\ tg_step' = TgStep("fetch_batch", 0, <<>>)
    /\ UNCHANGED <<offset, tg_updates>>
    /\ UNCHANGED <<dedupVars, chunkVars, hookVars, verifyVars, sendVars, cacheVars>>

\* the fetch returns an unsuccessful result or raises
\* (telegram_poll.py:55-58, 70-72)
TgFetchFails ==
    /\ poll.pc = "fetch"
    /\ poll' = on_error(poll)
    /\ \E k \in {"fetch_unsuccessful", "fetch_raised"} : tg_step' = TgStep(k, 0, <<>>)
    /\ UNCHANGED <<offset, tg_updates>>
    /\ UNCHANGED <<dedupVars, chunkVars, hookVars, verifyVars, sendVars, cacheVars>>

\* one pass of `for update in updates` (telegram_poll.py:65-72): the update
\* is handled and the cursor set past it; an exception of handle_update ends
\* the for loop in the except clause; after the last update the loop fetches
\* again
TgHandleUpdate ==
    /\ poll.pc = "batch"
    /\ \E update \in {poll.batch[poll.pos]} :
       \E out \in handle_update(update) :
          /\ tg_step' = TgStep(out.kind, update.update_id, out.sends)
          /\ IF out.ret = "raised"
             THEN /\ poll' = on_error(poll)
                  /\ offset' = offset
             ELSE /\ offset' = next_offset(update.update_id)
                  /\ poll' = IF poll.pos < Len(poll.batch)
                             THEN [poll EXCEPT !.pos = @ + 1]
                             ELSE [poll EXCEPT !.pc = "fetch"]
    /\ UNCHANGED tg_updates
    /\ UNCHANGED <<dedupVars, chunkVars, hookVars, verifyVars, sendVars, cacheVars>>

\* asyncio.sleep(POLL_INTERVAL_SECONDS) returned
TgSleepReturns ==
    /\ poll.pc = "sleep"
    /\ poll' = [poll EXCEPT !.pc = "fetch"]
    /\ tg_step' = TgStep("slept", 0, <<>>)
    /\ UNCHANGED <<offset, tg_updates>>
    /\ UNCHANGED <<dedupVars, chunkVars, hookVars, verifyVars, sendVars, cacheVars>>

PollNext == TgArrive \/ TgFetchOk \/ TgFetchFails \/ TgHandleUpdate \/ TgSleepReturns

PollSpecInit ==
    PollInit /\ DedupIdle /\ ChunkIdle /\ HookIdle /\ VerifyIdle /\ SendIdle /\ CacheIdle

SpecPoll == PollSpecInit /\ [][PollNext]_vars

(***************************************************************************)
(* Claims about the poll loop, checked under SpecPoll.                     *)
(***************************************************************************)
\* the step handles the update at the position of the loop
HandlesUpdate == poll.pc = "batch" /\ poll' # poll

\* a send of the step failed: the broker returned an unsuccessful result or
\* the call raised
SendFailed(st) == \E i \in 1..Len(st.sends) : st.sends[i] \in {"unsuccessful", "raised"}

\* C21 as stated, for the updates of a Telegram batch: an error while
\* processing one update (here a failed send) never prevents the updates that
\* follow it in the batch from being handled: the loop goes on with the next
\* update of the batch.
C21_LaterUpdatesHandled ==
    [][(HandlesUpdate /\ SendFailed(tg_step') /\ poll.pos < Len(poll.batch))
          => (poll'.pc = "batch" /\ poll'.pos = poll.pos + 1)]_vars

\* C22: the offset never decreases over the iterations of the poll loop; the
\* updates of a batch are handled in the order returned; and after a batch
\* has been processed the offset is greater than the highest update id seen
\* in it (the last processed update id + 1).
C22_CursorMonotone ==
    [][/\ offset' >= offset
       /\ HandlesUpdate
             => /\ tg_step'.update_id = poll.batch[poll.pos].update_id
                /\ poll'.pc = "batch"
                      => (poll'.batch = poll.batch /\ poll'.pos = poll.pos + 1)
                /\ poll'.pc = "fetch"
                      => /\ poll.pos = Len(poll.batch)
                         /\ offset' = poll.batch[Len(poll.batch)].update_id + 1
                         /\ \A i \in 1..Len(poll.batch) :
                               offset' > poll.batch[i].update_id]_vars

\* a batch of two or more updates has been processed and the loop is about
\* to fetch from the update after the last of them
C22_Witness ==
    /\ poll.pc = "fetch"
    /\ Len(poll.batch) >= 2
    /\ tg_step.kind \in {"skipped", "replied", "apologised"}
    /\ tg_step.update_id = poll.batch[Len(poll.batch)].update_id
    /\ offset = tg_step.update_id + 1

\* C23 as stated: the poll loop sleeps the fixed interval between every two
\* consecutive fetches, whether or not the previous fetch returned updates:
\* the step of the loop before a fetch, but for the first, is the return of
\* the sleep.
C23_SleepBetweenFetches ==
    [][(poll.pc = "fetch" /\ poll'.pc # "fetch") => tg_step.kind \in {"start", "slept"}]_vars

\* the step ends an iteration by an error: an unsuccessful fetch result or an
\* exception
EndsInError ==
    tg_step' # tg_step /\ tg_step'.kind \in {"fetch_unsuccessful", "fetch_raised", "raised"}

\* the sleep returns
WakesUp == poll.pc = "sleep" /\ poll' # poll

\* an error is followed by the sleep, and the sleep by the next fetch
ErrorsSleepThenFetch ==
    /\ EndsInError => (poll'.pc = "sleep" /\ offset' = offset)
    /\ WakesUp => (poll'.pc = "fetch" /\ offset' = offset)

\* C24: the poll loop never terminates on an error: after an unsuccessful
\* fetch result or an exception raised inside an iteration it sleeps the
\* fixed interval and then fetches again, keeping the offset it had reached.
C24_ErrorsSleepAndRetry ==
    [](poll.pc \in {"fetch", "batch", "sleep"}) /\ [][ErrorsSleepThenFetch]_vars

C24_Witness ==
    /\ poll.pc = "sleep"
    /\ tg_step.kind = "raised"
    /\ offset # NoOffset
    /\ offset = tg_step.update_id

(***************************************************************************)
(* SpecSend: one reply text is sent by one of the four handlers.  outbound *)
(* is the list of texts the handler hands to its send function, in order,  *)
(* when every send returns.                                                *)
(***************************************************************************)
Platforms == {"slack", "telegram", "facebook", "instagram"}

SendInit ==
    /\ text \in Texts
    /\ max_length \in 1..MaxMaxLength
    /\ chunker = "none"
    /\ message_chunks = <<>>
    /\ platform = "none"
    /\ outbound = <<>>

\* send_slack_message(team_id=team_id, channel=channel, text=reply)
\* (slack_app.py:312-318): the reply goes out whole
SlackSendReply ==
    /\ platform = "none"
    /\ platform' = "slack"
    /\ outbound' = <<text>>
    /\ UNCHANGED <<chunkVars, dedupVars, hookVars, verifyVars, pollVars, cacheVars>>

\* send_telegram_message_via_composio(chat_id=chat_id, text=reply)
\* (telegram_poll.py:39): the reply goes out whole
TelegramSendReply ==
    /\ platform = "none"
    /\ platform' = "telegram"
    /\ outbound' = <<text>>
    /\ UNCHANGED <<chunkVars, dedupVars, hookVars, verifyVars, pollVars, cacheVars>>

\* message_chunks = split_message_for_social_media(reply); for chunk in
\* message_chunks: send_facebook_message(..., chunk) (facebook_app.py:418-429)
FacebookSendReply ==
    /\ platform = "none"
    /\ platform' = "facebook"
    /\ message_chunks' = split_message_for_social_media(text, max_length)
    /\ chunker' = "social_media"
    /\ outbound' = message_chunks'
    /\ UNCHANGED <<text, max_length, dedupVars, hookVars, verifyVars, pollVars, cacheVars>>

\* message_chunks = split_message_for_instagram(reply); for chunk in
\* message_chunks: send_instagram_message(..., chunk) (instagram_app.py:688-699)
InstagramSendReply ==
    /\ platform = "none"
    /\ platform' = "instagram"
    /\ message_chunks' = split_message_for_instagram(text, max_length)
    /\ chunker' = "instagram"
    /\ outbound' = message_chunks'
    /\ UNCHANGED <<text, max_length, dedupVars, hookVars, verifyVars, pollVars, cacheVars>>

SendNext == SlackSendReply \/ TelegramSendReply \/ FacebookSendReply \/ InstagramSendReply

SendSpecInit == SendInit /\ DedupIdle /\ HookIdle /\ VerifyIdle /\ PollIdle /\ CacheIdle

SpecSend == SendSpecInit /\ [][SendNext]_vars

\* C25 as stated: on every platform (Slack, Telegram, Facebook, Instagram) the
\* reply text is passed through the chunker before it is sent, so no single
\* outbound send carries a text longer than max_length.
C25_NoSendOverMaxLength ==
    platform # "none" => \A i \in 1..Len(outbound) : Len(outbound[i]) <= max_length

\* where the chunker is called the bound holds
ChunkedPlatformsBounded ==
    platform \in {"facebook", "instagram"}
        => \A i \in 1..Len(outbound) : Len(outbound[i]) <= max_length

(***************************************************************************)
(* SpecCache: the Slack account-map cache.  get_slack_account_map runs on  *)
(* the event-loop thread and has no await, so one call runs at a time; its *)
(* steps are the statements between which the executor thread that runs    *)
(* sync_slack_accounts_to_supabase can be scheduled.  A mapping is         *)
(* modelled by the version of the store it was read from; NoMapping is the *)
(* empty dict.                                                             *)
(***************************************************************************)
cache_ttl == 60

\* time.time() at startup: any value above cache_ttl, as the epoch time is
Epoch == 100

NoMapping == 0
RuntimeErrorRaised == 0 - 1

\* what reader.loaded holds after a load that raised
LoadFailed == 0 - 2

\* mutant: the cache expires when _cache_ttl seconds have passed
expired_at_ttl(current_time, last_updated) == current_time - last_updated >= cache_ttl

\* if current_time - _cache_last_updated > _cache_ttl (slack_app.py:71)
expired(current_time, last_updated) == current_time - last_updated > cache_ttl

\* module import (slack_app.py:111-117): the startup load succeeded, or it
\* failed and left the cache empty with _cache_last_updated = 0
CacheInit ==
    /\ store = 1
    /\ clock = Epoch
    /\ \/ cache = store /\ cache_last_updated = clock
       \/ cache = NoMapping /\ cache_last_updated = 0
    /\ reader = [pc |-> "idle", current_time |-> 0, loaded |-> NoMapping, got |-> NoMapping]
    /\ syncer = "sleeping"
    /\ invalidated = FALSE
    /\ sync_task = "running"

\* wall-clock time passes: the two durations on either side of the expiry test
CacheTick ==
    /\ \E d \in {cache_ttl, cache_ttl + 1} :
          /\ clock + d <= Epoch + MaxElapsed
          /\ clock' = clock + d
    /\ UNCHANGED <<store, cache, cache_last_updated, reader, syncer, invalidated>>
    /\ UNCHANGED <<sync_task, dedupVars, chunkVars, hookVars, verifyVars, pollVars, sendVars>>

\* get_slack_account_map is called by a request, which the application
\* serves until it shuts down (slack_app.py:68-71, 81): it reads the time and
\* the timestamp; an unexpired cache is returned at once
GetSlackAccountMap ==
    /\ sync_task = "running"
    /\ reader.pc = "idle"
    /\ invalidated' = FALSE
    /\ IF expired(clock, cache_last_updated)
         THEN reader' = [reader EXCEPT !.pc = "loading", !.current_time = clock]
         ELSE reader' = [reader EXCEPT !.current_time = clock, !.got = cache]
    /\ UNCHANGED <<store, cache, cache_last_updated, clock, syncer>>
    /\ UNCHANGED <<sync_task, dedupVars, chunkVars, hookVars, verifyVars, pollVars, sendVars>>

\* load_slack_mapping_from_supabase() reads the table (slack_app.py:73)
LoadReturns ==
    /\ reader.pc = "loading"
    /\ reader' = [reader EXCEPT !.pc = "loaded", !.loaded = store]
    /\ UNCHANGED <<store, cache, cache_last_updated, clock, syncer, invalidated>>
    /\ UNCHANGED <<sync_task, dedupVars, chunkVars, hookVars, verifyVars, pollVars, sendVars>>

\* the load raises (slack_app.py:76-81): the cache and the timestamp are
\* kept; RuntimeError if the cache is empty
LoadRaises ==
    /\ reader.pc = "loading"
    /\ reader' = [reader EXCEPT !.pc = "idle", !.loaded = LoadFailed,
                                 !.got = IF cache = NoMapping THEN RuntimeErrorRaised ELSE cache]
    /\ UNCHANGED <<store, cache, cache_last_updated, clock, syncer, invalidated>>
    /\ UNCHANGED <<sync_task, dedupVars, chunkVars, hookVars, verifyVars, pollVars, sendVars>>

\* _slack_account_map_cache = <the mapping loaded>; _cache_last_updated =
\* current_time; return _slack_account_map_cache (slack_app.py:73-74, 81)
CacheRefreshed ==
    /\ reader.pc = "loaded"
    /\ cache' = reader.loaded
    /\ cache_last_updated' = reader.current_time
    /\ reader' = [reader EXCEPT !.pc = "idle", !.got = reader.loaded]
    /\ UNCHANGED <<store, clock, syncer, invalidated>>
    /\ UNCHANGED <<sync_task, dedupVars, chunkVars, hookVars, verifyVars, pollVars, sendVars>>

\* mutant: an exception of a sync ends the loop
after_sync_raise_stops(outcome) == IF outcome = "raised" THEN "stopped" ELSE "sleeping"

\* background_sync_loop after a sync (slack_app.py:147-157): the sync logs
\* its own exceptions (slack_app.py:107-108) and the loop logs what the
\* executor raises; either way the loop goes back to the sleep.  "failed" is
\* the sleep after a sync that raised
after_sync(outcome) == IF outcome = "raised" THEN "failed" ELSE "sleeping"

\* the loop awaits asyncio.sleep(SYNC_INTERVAL)
Sleeping == {"sleeping", "failed"}

\* background_sync_loop: the sleep of SYNC_INTERVAL returns and the sync is
\* handed to the executor (slack_app.py:150-153)
SyncStarts ==
    /\ sync_task = "running"
    /\ syncer \in Sleeping
    /\ syncer' = "running"
    /\ UNCHANGED <<store, cache, cache_last_updated, clock, reader, invalidated>>
    /\ UNCHANGED <<sync_task, dedupVars, chunkVars, hookVars, verifyVars, pollVars, sendVars>>

\* bulk_upsert_slack_accounts(mapping) (slack_app.py:98): the table gets the
\* accounts of the broker, new ones or the ones it had
BulkUpsert ==
    /\ syncer = "running"
    /\ syncer' = "upserted"
    /\ \E v \in {store, store + 1} :
          /\ v <= MaxVersions
          /\ store' = v
    /\ UNCHANGED <<cache, cache_last_updated, clock, reader, invalidated>>
    /\ UNCHANGED <<sync_task, dedupVars, chunkVars, hookVars, verifyVars, pollVars, sendVars>>

\* no account to sync (slack_app.py:104-105), or the sync raised before the
\* upsert was made (slack_app.py:107-108, 156-157)
SyncWithoutUpsert ==
    /\ syncer = "running"
    /\ \E outcome \in {"nothing", "raised"} : syncer' = after_sync(outcome)
    /\ UNCHANGED <<store, cache, cache_last_updated, clock, reader, invalidated>>
    /\ UNCHANGED <<sync_task, dedupVars, chunkVars, hookVars, verifyVars, pollVars, sendVars>>

\* _cache_last_updated = 0 (slack_app.py:101-103), in the executor thread
InvalidateCache ==
    /\ syncer = "upserted"
    /\ syncer' = after_sync("synced")
    /\ cache_last_updated' = 0
    /\ invalidated' = TRUE
    /\ UNCHANGED <<store, cache, clock, reader>>
    /\ UNCHANGED <<sync_task, dedupVars, chunkVars, hookVars, verifyVars, pollVars, sendVars>>

\* lifespan at shutdown (slack_app.py:135-141): sync_task.cancel() raises
\* CancelledError at the await the loop is at, the sleep or the executor's
\* future, and the loop breaks (slack_app.py:154-155); a sync in the executor
\* thread runs to its end
Shutdown ==
    /\ sync_task = "running"
    /\ sync_task' = "cancelled"
    /\ UNCHANGED <<store, cache, cache_last_updated, clock, reader, syncer, invalidated>>
    /\ UNCHANGED <<dedupVars, chunkVars, hookVars, verifyVars, pollVars, sendVars>>

CacheNext ==
    \/ CacheTick
    \/ GetSlackAccountMap
    \/ LoadReturns
    \/ LoadRaises
    \/ CacheRefreshed
    \/ SyncStarts
    \/ BulkUpsert
    \/ SyncWithoutUpsert
    \/ InvalidateCache
    \/ Shutdown

CacheSpecInit == CacheInit /\ DedupIdle /\ ChunkIdle /\ HookIdle /\ VerifyIdle /\ PollIdle /\ SendIdle

SpecCache == CacheSpecInit /\ [][CacheNext]_vars

\* C26 as stated: a request that reads the Slack account map never performs
\* or waits for a load from the store: the cache is refreshed only by the
\* background task on its fixed interval, and a reader gets whatever the most
\* recent completed refresh produced.
C26_ReaderNeverLoads ==
    /\ [](reader.pc = "idle")
    /\ [][(cache' # cache \/ cache_last_updated' > cache_last_updated) => syncer' # syncer]_vars

\* C27 as stated: the account-map cache has no lost-update hazard: for every
\* interleaving of the background sync with request handling, once the sync
\* has upserted accounts and invalidated the cache by setting
\* _cache_last_updated to 0, the next get_slack_account_map call that starts
\* afterwards reloads the mapping from the store.
C27_InvalidationNotLost ==
    [][(invalidated /\ ~invalidated') => reader'.pc = "loading"]_vars

\* with no load in progress when the sync invalidates, the next call reloads
InvalidationSeenWhenNoLoadInProgress ==
    [][(invalidated /\ ~invalidated' /\ cache_last_updated = 0) => reader'.pc = "loading"]_vars

(***************************************************************************)
(* The send loop of one reply, checked under SpecFaults.                   *)
(***************************************************************************)
\* the sends of the latest step that returned, with or without success
ReturnedSends ==
    {i \in 1..Len(seg) : /\ seg[i].window \in {"facebook_message", "instagram_message"}
                         /\ seg[i].send \in {"successful", "unsuccessful"}}

\* after a send that returned the handler awaits the pause if and only if
\* chunks are left, whatever the result of the send
PauseAfterAllButLast ==
    \A i \in ReturnedSends :
        IF seg[i].chunk < seg[i].total
        THEN /\ req[seg[i].req].pc = "sleep"
             /\ req[seg[i].req].sent = seg[i].chunk
             /\ req[seg[i].req].chunks = seg[i].total - seg[i].chunk
        ELSE req[seg[i].req].pc # "sleep"

\* the step that follows the return of the backend sends the first chunk, if
\* there is one; the step that follows a pause sends the chunk after the one
\* sent before the pause
ChunksInOrder ==
    \A r \in Reqs :
        /\ (req[r].pc = "backend" /\ req'[r] # req[r])
              => /\ seg' # <<>>
                 /\ seg'[1].outcome = "reply"
                 /\ seg'[1].chunk = IF seg'[1].total = 0 THEN 0 ELSE 1
                 /\ seg'[1].send = "none" <=> seg'[1].total = 0
        /\ (req[r].pc = "sleep" /\ req'[r] # req[r])
              => /\ seg' # <<>>
                 /\ seg'[1].send # "none"
                 /\ seg'[1].chunk = req[r].sent + 1
                 /\ seg'[1].total = req[r].sent + req[r].chunks

\* C28: within one reply the chunks are sent in chunk-list order, the send of
\* chunk i+1 starting only after the send of chunk i has returned, with one
\* fixed pause after every chunk except the last; a chunk whose send returns
\* an unsuccessful result does not stop the later chunks from being sent.
C28_ChunksInOrderWithPauses == []PauseAfterAllButLast /\ [][ChunksInOrder]_vars

\* the first of two chunks was not accepted by the broker and the handler
\* pauses before it sends the second
C28_Witness ==
    \E i \in ReturnedSends :
        /\ seg[i].send = "unsuccessful"
        /\ seg[i].chunk = 1
        /\ seg[i].total = MaxChunks
        /\ req[seg[i].req].pc = "sleep"

\* the last chunk of a reply of more than one chunk has been sent
LastChunkSent ==
    \E i \in ReturnedSends : seg[i].chunk = seg[i].total /\ seg[i].total > 1

(***************************************************************************)
(* What makes an event a duplicate, checked under SpecHooks.               *)
(***************************************************************************)
MessageWindows == {"slack_event", "facebook_message", "instagram_message"}

\* the events of the latest step that were dropped as duplicates
Suppressed ==
    {i \in 1..Len(seg) : seg[i].window \in MessageWindows /\ seg[i].outcome = "duplicate"}

\* C29 as stated: an event is suppressed as a duplicate only if an earlier
\* delivery with the same identifier reached the backend dispatch step: an
\* event whose first delivery was filtered out (bot event, not a mention) or
\* failed before dispatch (unknown scope) is not suppressed when the platform
\* delivers it again.
C29_SuppressedOnlyAfterDispatch ==
    \A i \in Suppressed : dispatched[seg[i].id] >= 1

\* event j of the step came to the duplicate check after a delivery with the
\* same identifier had come to it, in an earlier step or earlier in the payload
SeenBefore(j) ==
    \/ seg'[j].id \in processed_index[seg'[j].window]
    \/ \E k \in 1..(j - 1) :
          /\ seg'[k].window = seg'[j].window
          /\ seg'[k].id = seg'[j].id
          /\ seg'[k].dedup = "called"

\* the events of the step that came to the duplicate check with an identifier
Checked ==
    {j \in 1..Len(seg') : seg'[j].window \in MessageWindows /\ seg'[j].dedup = "called"}

\* an event is suppressed exactly if its identifier had come to the check
\* before, and after the step its identifier is recorded whatever the step
\* then did with the event
SuppressedIffSeenBefore ==
    \A j \in Checked :
        /\ seg'[j].outcome = "duplicate" <=> SeenBefore(j)
        /\ seg'[j].id \in processed_index'[seg'[j].window]

\* C29, amended: an event is suppressed as a duplicate if and only if an
\* earlier delivery with the same identifier reached the duplicate check and
\* is still in the window; the identifier is recorded at the check, before the
\* filters and the scope lookup, so an event whose first delivery was filtered
\* out or failed before dispatch is suppressed when it is delivered again.
C29_SuppressedIffSeenAtCheck == [][SuppressedIffSeenBefore]_vars

\* an event was dropped as a duplicate though no delivery of its identifier
\* was ever dispatched to the chat backend
C29_Witness ==
    \E i \in Suppressed : dispatched[seg[i].id] = 0

(***************************************************************************)
(* SpecPollFair: the poll loop under fair scheduling.  The loop is the     *)
(* only coroutine of its process, so its sleep returns and the handling of *)
(* an update in a batch goes on (weak fairness); the broker's fetch can    *)
(* fail any number of times but succeeds in the end (strong fairness).     *)
(* Nothing is assumed of the sends.                                        *)
(***************************************************************************)
SpecPollFair ==
    /\ SpecPoll
    /\ WF_vars(TgSleepReturns)
    /\ WF_vars(TgHandleUpdate)
    /\ SF_vars(TgFetchOk)

\* update i is in the batch the loop is working through
InBatch(i) ==
    /\ poll.pc = "batch"
    /\ \E k \in 1..Len(poll.batch) : poll.batch[k].update_id = i

\* C30 as stated: under fair scheduling and a broker whose fetches eventually
\* succeed, every Telegram update returned by a fetch is eventually passed by
\* the cursor (offset > its update id), also when sending the reply for that
\* update keeps failing, so no update is re-fetched and re-handled forever and
\* no update behind it is blocked forever.
C30_EveryUpdatePassed ==
    \A i \in 1..MaxUpdates : InBatch(i) ~> (offset > i)

\* an update handled without an exception is passed at once
HandledUpdatePassed ==
    [][(HandlesUpdate /\ tg_step'.kind # "raised") => offset' = tg_step'.update_id + 1]_vars

(***************************************************************************)
(* Which Instagram messages are dispatched, checked under SpecHooks.       *)
(***************************************************************************)
\* the Instagram messaging events of the latest step that have text, are not
\* echoes and were not dropped as duplicates
InstagramMessages ==
    {i \in 1..Len(seg) : /\ seg[i].window = "instagram_message"
                         /\ seg[i].kind = "message"
                         /\ seg[i].outcome # "duplicate"}

\* C31 as stated: every messaging event in an Instagram POST payload that has
\* non-empty text, is not an echo and is not a duplicate is dispatched to the
\* chat backend, whatever else the same payload contains (in particular also
\* when the payload carries a "comments" change).  An event whose account
\* lookup fails is dropped (C18) and is not counted against the claim here.
C31_EveryMessageDispatched ==
    \A i \in InstagramMessages : seg[i].outcome \in {"dispatched", "unknown_scope"}

\* the messaging events the loop reads are dispatched, dropped as duplicates
\* or dropped for their account
ReadMessagesDispatched ==
    \A i \in InstagramMessages :
        seg[i].outcome # "unread" => seg[i].outcome \in {"dispatched", "unknown_scope"}

(***************************************************************************)
(* The bot's own events, checked under SpecHooks.                          *)
(***************************************************************************)
\* the events of the latest step that the bot itself caused: a Slack event
\* with a bot_id or of the bot's own user, an echo on Facebook or Instagram
OwnEvents ==
    {i \in 1..Len(seg) : seg[i].kind \in {"bot_id", "self", "self_mention", "echo"}}

\* C32 as stated: the bot never answers itself: an event that carries a bot_id
\* or whose user is the bot's own user id (Slack), or a message flagged
\* is_echo (Facebook, Instagram), is never dispatched to the chat backend and
\* triggers no outbound send.
C32_NeverAnswersItself ==
    \A i \in OwnEvents : seg[i].outcome # "dispatched" /\ seg[i].send = "none"

\* it holds for the events with a bot_id, for the echoes, and for the events
\* of the bot's user where the handler knows the bot's user id
KnownOwnEventsDropped ==
    \A i \in OwnEvents :
        (seg[i].kind \in {"bot_id", "echo"} \/ bot_user_id(seg[i].scope) # "")
            => (seg[i].outcome # "dispatched" /\ seg[i].send = "none")

(***************************************************************************)
(* The replies of two concurrent requests, checked under SpecHooks.  The   *)
(* events of the model come from one sender, so every reply goes to the    *)
(* same recipient.                                                         *)
(***************************************************************************)
\* the step is one of request q and sends a chunk of its reply
SendsChunk(q) ==
    /\ req'[q] # req[q]
    /\ seg' # <<>>
    /\ seg'[1].req = q
    /\ seg'[1].window \in {"facebook_message", "instagram_message"}
    /\ seg'[1].send # "none"

\* request r has sent a chunk of its reply and has chunks left to send
BetweenChunks(r) == req[r].pc = "sleep"

\* C33 as stated: when two webhook requests are handled concurrently by one
\* process, the chunks of one reply are sent contiguously: between the first
\* and the last chunk send of a reply, no chunk of another reply is sent to
\* the same recipient.
C33_ChunksContiguous ==
    [][\A r \in Reqs, q \in Reqs : (r # q /\ BetweenChunks(r)) => ~SendsChunk(q)]_vars

(***************************************************************************)
(* get_slack_account_map when the load fails, checked under SpecCache.     *)
(***************************************************************************)
\* the step is the load raising
LoadFails == reader.pc = "loading" /\ reader'.pc = "idle"

\* the step is a call that starts a load
StartsLoad == reader.pc = "idle" /\ reader'.pc = "loading"

\* the step is a call that returns the cache without a load
ReturnsCached == reader.pc = "idle" /\ reader'.pc = "idle" /\ reader' # reader

\* a failed load keeps the cache and the timestamp; the call returns the
\* cache, or raises if the cache is empty
FailedLoadKeepsCache ==
    LoadFails =>
        /\ cache' = cache
        /\ cache_last_updated' = cache_last_updated
        /\ reader'.got = IF cache = NoMapping THEN RuntimeErrorRaised ELSE cache

\* a load starts only if more than _cache_ttl seconds have passed since the
\* timestamp, which holds the time of the last successful load, or 0 if the
\* cache was invalidated since or never loaded
LoadsOnlyWhenExpired ==
    /\ StartsLoad => (cache_last_updated = 0 \/ clock - cache_last_updated > cache_ttl)
    /\ ReturnsCached => (reader'.got = cache /\ clock - cache_last_updated <= cache_ttl)

\* after a failed load the cache is still expired: the next call tries again
NextCallTriesAgain ==
    (reader.pc = "idle" /\ reader.loaded = LoadFailed)
        => clock - cache_last_updated > cache_ttl

\* C34: when a refresh of the Slack account map fails, get_slack_account_map
\* returns the previous cache unchanged and leaves _cache_last_updated
\* unchanged (so the next call tries again) if the cache is non-empty, and
\* raises an error if the cache is empty; it reloads from the store only when
\* more than _cache_ttl seconds have passed since the last successful load or
\* invalidation.
C34_FailedRefreshKeepsCache ==
    /\ []NextCallTriesAgain
    /\ [][FailedLoadKeepsCache /\ LoadsOnlyWhenExpired]_vars

\* a load failed with a cache loaded before: the call returned that cache
C34_Witness ==
    /\ reader.pc = "idle"
    /\ reader.loaded = LoadFailed
    /\ cache # NoMapping
    /\ reader.got = cache
    /\ cache_last_updated = Epoch
    /\ store # cache

\* a load failed with an empty cache: the call raised
EmptyCacheRaises ==
    /\ reader.pc = "idle"
    /\ reader.loaded = LoadFailed
    /\ cache = NoMapping
    /\ reader.got = RuntimeErrorRaised

\* the cache is exactly _cache_ttl seconds old and a call returns it
ReturnedAtTtl ==
    /\ reader.pc = "idle"
    /\ reader.current_time - cache_last_updated = cache_ttl
    /\ reader.got = cache
    /\ cache # NoMapping

(***************************************************************************)
(* SpecCacheFair: the account-map cache under fair scheduling.  The sleep  *)
(* of the sync loop returns while the task lives, and a sync handed to the *)
(* executor runs to its end.  Nothing is assumed of requests, of the       *)
(* outcome of a sync or of the shutdown.                                   *)
(***************************************************************************)
SpecCacheFair ==
    /\ SpecCache
    /\ WF_vars(SyncStarts)
    /\ WF_vars(BulkUpsert \/ SyncWithoutUpsert)
    /\ WF_vars(InvalidateCache)

\* a sync starts only from the sleep of a living loop
SyncOnlyAfterSleep ==
    (syncer # "running" /\ syncer' = "running") => (syncer \in Sleeping /\ sync_task = "running")

\* the loop is asleep or in a sync, never ended but by the cancellation
LoopAlive ==
    /\ syncer \in Sleeping \cup {"running", "upserted"}
    /\ sync_task \in {"running", "cancelled"}

\* C35: the background sync loop runs one sync after every SYNC_INTERVAL
\* sleep for as long as the application runs: a failure of one sync never
\* stops the later syncs, and the loop ends only when it is cancelled at
\* shutdown.
C35_SyncLoopKeepsRunning ==
    /\ []LoopAlive
    /\ [][SyncOnlyAfterSleep]_vars
    /\ (syncer \in {"running", "upserted"}) ~> (syncer \in Sleeping)
    /\ (syncer \in Sleeping) ~> (syncer = "running" \/ sync_task = "cancelled")
    /\ (syncer = "failed") ~> (syncer = "running" \/ sync_task = "cancelled")

\* a sync has upserted accounts, a later one raised, and the loop is in its
\* next sleep
C35_Witness ==
    /\ syncer = "failed"
    /\ sync_task = "running"
    /\ store > 1

(***************************************************************************)
(* The two structures of a dedup window, checked under SpecDedup.          *)
(***************************************************************************)
\* the set holds exactly the identifiers of the deque, each once in the deque
WindowConsistent(w) ==
    /\ {processed_ids[w][i] : i \in 1..Len(processed_ids[w])} = processed_index[w]
    /\ Cardinality(processed_index[w]) = Len(processed_ids[w])

\* C36: in every reachable state of each dedup window the membership set
\* equals the set of identifiers in the ordered record, and no identifier
\* occurs twice in the record.
C36_SetEqualsRecord == \A w \in Windows : WindowConsistent(w)

\* the window has evicted its oldest entries and has been asked again for an
\* identifier it holds
C36_Witness ==
    /\ nextId > 500
    /\ Len(processed_ids[target]) = 500
    /\ 1 \notin processed_index[target]
    /\ last.ret

(***************************************************************************)
(* The three copies of the chunker compared, checked under SpecChunk.      *)
(***************************************************************************)
\* C37 as stated: the three copies of the chunker
\* (split_message_for_social_media, split_message_for_instagram,
\* split_message_for_discord) return the same chunk list for every text and
\* max_length.
C37_ThreeCopiesAgree ==
    Ran => /\ message_chunks = split_message_for_social_media(text, max_length)
           /\ message_chunks = split_message_for_instagram(text, max_length)
           /\ message_chunks = split_message_for_discord(text, max_length)

\* the text has a line break
HasNewline == \E i \in 1..Len(text) : text[i] = "\n"

\* C37, amended: split_message_for_social_media and
\* split_message_for_instagram return the same chunk list for every text and
\* max_length; split_message_for_discord, which has no newline pass, returns
\* that list too for every text without a line break.
C37_TwoCopiesAgree ==
    /\ chunker \in {"social_media", "instagram"}
          => /\ message_chunks = split_message_for_social_media(text, max_length)
             /\ message_chunks = split_message_for_instagram(text, max_length)
    /\ (chunker = "discord" /\ ~HasNewline)
          => message_chunks = split_message_for_social_media(text, max_length)

\* the Instagram copy has split a text at a line break, where the Discord
\* copy cuts at max_length
C37_Witness ==
    /\ chunker = "instagram"
    /\ HasNewline
    /\ Len(message_chunks) > 1
    /\ message_chunks # split_message_for_discord(text, max_length)

(***************************************************************************)
(* The GET handshake without a configured token, checked under SpecVerify. *)
(***************************************************************************)
\* C38 as stated: when no verify token is configured (the empty default),
\* the GET verification handshake never succeeds: the challenge is echoed
\* only against a non-empty configured token.
C38_NoTokenNoHandshake ==
    (HandshakeAnswered /\ request.secret = "") => response.status # 200

\* without a configured token every handshake that presents a non-empty
\* token is refused
NonEmptyTokenRefusedWithoutConfig ==
    (HandshakeAnswered /\ request.secret = "" /\ request.hub_verify_token # "")
        => response.status = 403

====
